---------------------------- MODULE Spec2Model ----------------------------
(***************************************************************************)
(* Model of the turtle-shell image pipeline (processImage, four variants),  *)
(* of the lazily initialised OpenCV handle (initCV) and of the server's    *)
(* routes over the in-memory roster (src/server.js).                       *)
(*                                                                         *)
(*   flood   src/unnamed/part_000          flood-fill border detector      *)
(*   geo1    src/unnamed/part_001:1-256    HoughCircles, masker + boost    *)
(*   geo2    src/unnamed/part_001:258-434  HoughCircles, crop only         *)
(*   server  src/server.js:116-137         white removal only              *)
(*                                                                         *)
(* A raster is a function from the pixel index y*width+x to <<R,G,B,A>>.   *)
(* The raster handed to the model is the one sharp returns after           *)
(* resize/ensureAlpha/raw; HoughCircles is an external routine and its     *)
(* output (after Math.round) is a nondeterministic list of candidates.     *)
(***************************************************************************)
EXTENDS Integers, Sequences, FiniteSets, TLC

VARIABLES
  variant,          \* which processImage is running
  pc,               \* position inside processImage
  width, height,    \* info.width, info.height
  input,            \* the normalized raster as decoded (never written)
  data,             \* the working RGBA buffer (written in place)
  startIdx,         \* flood: start pixel index, -1 when none
  visited, mask,    \* sets of pixel indices (Uint8Array flags)
  stack,            \* flood: explicit stack of pixel indices
  fillCount, edgeTouchPixels, touchesEdge,
  useShellMask, hint,
  erodeStep,        \* flood: erosion passes done
  paper,            \* <<paperR, paperG, paperB>>, <<>> when undefined
  hasPaperColor,
  candidates,       \* geo: HoughCircles output after Math.round
  circle,           \* geo: <<circleCx, circleCy, circleR>>, <<>> when undefined
  counts,           \* geo: <<dark, valid>> of each candidate scored so far
  bestScore,        \* geo: bestScore as <<dark, valid, factor>>
  outWidth, outHeight, outData,
  cvPromise,        \* module variable cvPromise: NoPromise, or the promise's id
  cvLoads,          \* how many times the engine module's then() was consumed
  cvResolved,       \* promise id -> the value it resolved with, Null if pending
  callerPc,         \* per caller of initCV: "idle", "awaiting", "running"
  callerCv,         \* per caller: <<promise initCV returned, value awaited>>
  heroTurtle,       \* server: let heroTurtle (Null before generateHeroTurtle)
  turtles,          \* server: const turtles = [], the roster
  nextId,           \* server: let nextId
  commandQueue,     \* server: Map turtleId -> action
  rateLimitMap,     \* server: Map ip -> [count, resetTime]
  now,              \* server: Date.now(), in milliseconds since start
  pending,          \* server: upload handlers suspended at await processImage
  reply,            \* server: the response sent last, with its request
  served            \* server: turtles announced by 200 responses, in order

imgVars == <<variant, width, height, input>>
fillVars == <<startIdx, visited, stack, fillCount, edgeTouchPixels,
              touchesEdge, erodeStep>>
paperVars == <<paper, hasPaperColor>>
geoVars == <<candidates, counts, circle, bestScore>>
outVars == <<outWidth, outHeight, outData>>
cvVars == <<cvPromise, cvLoads, cvResolved, callerPc, callerCv>>
srvVars == <<heroTurtle, turtles, nextId, commandQueue, rateLimitMap, now,
             pending, reply, served>>

vars == <<imgVars, pc, data, mask, useShellMask, hint, fillVars, paperVars,
          geoVars, outVars, cvVars, srvVars>>

-----------------------------------------------------------------------------
(* Bounds of the input family *)

MaxSide == 10     \* largest width of a flood-fill raster
MaxMargin == 3    \* largest distance of the drawn frame from the image edge
MaxGap == 4       \* largest gap (in pixels) cut into the frame's right side

-----------------------------------------------------------------------------
(* Program constants *)

DarkThreshold == 60       \* data[pi] < 60
WhiteThreshold == 230     \* data[i] > 230
ErodeSteps == 3           \* const erodeSteps = 3
DistSq == 484             \* const distSq = 22 * 22
HintText == "Make sure the entire turtle circle is in the photo!"
Null == "null"            \* JavaScript null / undefined
NoPromise == 0            \* let cvPromise = null (promises are numbered from 1)

Abs(n) == IF n < 0 THEN -n ELSE n
Min2(a, b) == IF a < b THEN a ELSE b
Max2(a, b) == IF a > b THEN a ELSE b

PixelX(i, w) == i % w
PixelY(i, w) == i \div w

IsDark(p) == p[1] < DarkThreshold /\ p[2] < DarkThreshold /\ p[3] < DarkThreshold
IsWhite(p) == p[1] > WhiteThreshold /\ p[2] > WhiteThreshold /\ p[3] > WhiteThreshold

Pixels(w, h) == 0 .. (w * h - 1)

\* Variant of OnEdge for which no pixel is an edge pixel.
NoEdge(i, w, h) == FALSE

OnEdge(i, w, h) ==
  \/ PixelX(i, w) = 0 \/ PixelX(i, w) = w - 1
  \/ PixelY(i, w) = 0 \/ PixelY(i, w) = h - 1

DarkCount(img, w, h) == Cardinality({i \in Pixels(w, h) : IsDark(img[i])})


-----------------------------------------------------------------------------
(* Input family: rasters as the test helper makeImage draws them -- a white  *)
(* canvas, then a one-pixel frame (the shell border) with a coloured         *)
(* interior, an optional gap in the frame's right side and an optional dark  *)
(* blob on the image centre.                                                 *)

Black    == <<0, 0, 0, 255>>
Gray70   == <<70, 70, 70, 255>>        \* not dark for the flood fill (>= 60)
White    == <<255, 255, 255, 255>>
OffWhite == <<225, 224, 220, 255>>     \* paper tone that is not pure white
Pencil   == <<205, 205, 210, 255>>     \* faint mark close to the paper tone
Shade    == <<236, 232, 228, 255>>     \* paper in lighter shading, within 22 of OffWhite
DarkBlue == <<26, 26, 128, 255>>       \* #1a1a80
Red      == <<255, 0, 0, 255>>
Tint     == <<40, 90, 200, 128>>       \* coloured, half transparent

FrameColours == {Black, Gray70}
TopColours == {White, Pencil, DarkBlue, Red, Tint, Shade}
BottomColours == {OffWhite, DarkBlue}

\* The pixel of the page at (x, y).
PagePixel(x, y, w, h, m, g, blob, fc, top, bottom) ==
  LET cx == w \div 2
      cy == h \div 2
      x1 == w - 1 - m
      y1 == h - 1 - m
      onFrame == \/ (x \in {m, x1} /\ y >= m /\ y <= y1)
                 \/ (y \in {m, y1} /\ x >= m /\ x <= x1)
      inGap == x = x1 /\ y >= cy /\ y < cy + g
      inside == x > m /\ x < x1 /\ y > m /\ y < y1
      inBlob == blob > 0 /\ Abs(x - cx) < blob /\ Abs(y - cy) < blob
  IN  IF inBlob THEN Black
      ELSE IF inGap THEN White
      ELSE IF onFrame THEN fc
      ELSE IF inside THEN (IF y < cy THEN top ELSE bottom)
      ELSE White

PageImage(w, h, m, g, blob, fc, top, bottom) ==
  [i \in Pixels(w, h) |->
     PagePixel(PixelX(i, w), PixelY(i, w), w, h, m, g, blob, fc, top, bottom)]

\* Two small frames, a larger one whose interior inside a frame drawn on
\* the image edge exceeds 70% of the image and whose start search spans the
\* rings 0, 1 and 2, and a wide one (17 x 10) whose interior less the centre
\* pixel is exactly 70% of the image, where totalPixels * 0.7 is the double
\* just below 119.
FloodSizes ==
  {<<MaxSide - 1, MaxSide - 1>>, <<MaxSide, MaxSide + 2>>,
   <<MaxSide + 4, MaxSide + 4>>, <<MaxSide + 7, MaxSide>>}

-----------------------------------------------------------------------------
(* Flood-fill variant: src/unnamed/part_000 *)

\* Variant of MaxSearch that searches half the frame instead of 15% of it.
MaxSearchHalf(w, h) == Min2(w, h) \div 2

\* lines 34-51: first non-dark pixel on the square rings around the centre,
\* rings by increasing r, inside a ring by increasing dy, then increasing dx.
MaxSearch(w, h) == (Min2(w, h) * 15) \div 100

StartCandidates(img, w, h) ==
  LET cx == w \div 2
      cy == h \div 2
      ms == MaxSearch(w, h)
  IN  {t \in (0 .. ms) \X (-ms .. ms) \X (-ms .. ms) :
         /\ Abs(t[2]) <= t[1] /\ Abs(t[3]) <= t[1]
         /\ ~(t[1] > 0 /\ Abs(t[3]) < t[1] /\ Abs(t[2]) < t[1])
         /\ cx + t[3] >= 0 /\ cx + t[3] < w
         /\ cy + t[2] >= 0 /\ cy + t[2] < h
         /\ ~IsDark(img[(cy + t[2]) * w + (cx + t[3])])}

\* Variant of ScanBefore that scans the outer rings first.
ScanOuterFirst(a, b) ==
  \/ a[1] > b[1]
  \/ a[1] = b[1] /\ a[2] < b[2]
  \/ a[1] = b[1] /\ a[2] = b[2] /\ a[3] < b[3]

ScanBefore(a, b) ==
  \/ a[1] < b[1]
  \/ a[1] = b[1] /\ a[2] < b[2]
  \/ a[1] = b[1] /\ a[2] = b[2] /\ a[3] < b[3]

FindStart(img, w, h) ==
  LET c == StartCandidates(img, w, h)
  IN  IF c = {} THEN -1
      ELSE LET t == CHOOSE a \in c : \A b \in c : a = b \/ ScanBefore(a, b)
           IN  ((h \div 2) + t[2]) * w + ((w \div 2) + t[3])

\* Variant of FillTooLarge that never aborts the fill.
NeverTooLarge(fc, total) == FALSE

\* line 78: fillCount > totalPixels * 0.7, in doubles.  The double 0.7 is
\* 0.7 - 0.4 * 2^-53, so the product is below 0.7 * total by (total / 10) * 2^-51
\* before rounding: where 0.7 * total is an integer (total = 10 * m) the
\* product rounds to the double below 7 * m exactly when 4 * m exceeds the
\* largest power of two under 7 * m, and then fillCount = 7 * m passes the test.
FillTooLarge(fc, total) ==
  LET RECURSIVE Pow2Below(_, _)
      Pow2Below(p, n) == IF 2 * p <= n THEN Pow2Below(2 * p, n) ELSE p
      m == total \div 10
  IN  \/ 10 * fc > 7 * total
      \/ /\ 10 * fc = 7 * total
         /\ 4 * m > Pow2Below(1, 7 * m)

\* Variant of AcceptFill that forgets the edge-touch test.
AcceptFillNoEdgeTest(fc, total, etp) ==
  /\ 100 * fc > 3 * total
  /\ 10 * fc < 7 * total

\* lines 98-102: fillRatio > 0.03 && fillRatio < 0.7 && edgeTouchPixels < 0.53*sqrt(fillCount)
AcceptFill(fc, total, etp) ==
  /\ 100 * fc > 3 * total
  /\ 10 * fc < 7 * total
  /\ 10000 * etp * etp < 2809 * fc

\* lines 84-88: the 4-neighbours in push order
Neighbours(idx, w, h) ==
  LET x == PixelX(idx, w)
      y == PixelY(idx, w)
  IN  (IF x > 0 THEN <<idx - 1>> ELSE <<>>) \o
      (IF x < w - 1 THEN <<idx + 1>> ELSE <<>>) \o
      (IF y > 0 THEN <<idx - w>> ELSE <<>>) \o
      (IF y < h - 1 THEN <<idx + w>> ELSE <<>>)

\* Variant of Pushed that lets the fill continue onto dark pixels.
PushedThroughInk(nb, vis, img) == SelectSeq(nb, LAMBDA ni : ni \notin vis)

\* Variant of Pushed without the visited test.
PushedUnmarked(nb, vis, img) == SelectSeq(nb, LAMBDA ni : ~IsDark(img[ni]))

\* lines 89-95: the neighbours that are pushed, in order
Pushed(nb, vis, img) ==
  SelectSeq(nb, LAMBDA ni : ni \notin vis /\ ~IsDark(img[ni]))

SeqRange(s) == {s[k] : k \in 1 .. Len(s)}

\* Variant of ErodePass that looks at the left and right neighbours only.
ErodeRowsOnly(m, w, h) ==
  {i \in m :
     ~(\/ (PixelX(i, w) > 0 /\ (i - 1) \notin m)
       \/ (PixelX(i, w) < w - 1 /\ (i + 1) \notin m)
       \/ OnEdge(i, w, h))}

\* lines 110-124: one erosion pass
ErodePass(m, w, h) ==
  {i \in m :
     ~(\/ (PixelX(i, w) > 0 /\ (i - 1) \notin m)
       \/ (PixelX(i, w) < w - 1 /\ (i + 1) \notin m)
       \/ (PixelY(i, w) > 0 /\ (i - w) \notin m)
       \/ (PixelY(i, w) < h - 1 /\ (i + w) \notin m)
       \/ OnEdge(i, w, h))}

\* Variant of FloodHint that forgets the !useShellMask guard.
HintIgnoringDetection(use, te, img, w, h) ==
  IF te /\ 100 * DarkCount(img, w, h) > 5 * (w * h)
  THEN HintText ELSE Null

\* Variant of FloodHint that forgets the dark-ratio test.
HintWithoutInk(use, te, img, w, h) ==
  IF ~use /\ te THEN HintText ELSE Null

\* lines 129-135
FloodHint(use, te, img, w, h) ==
  IF ~use /\ te /\ 100 * DarkCount(img, w, h) > 5 * (w * h)
  THEN HintText ELSE Null


-----------------------------------------------------------------------------
(* Paper colour, masker, contrast boost: part_000:143-206, part_001:146-209 *)

\* Variant of ChannelMedian that takes the smallest value of the channel.
ChannelLowest(img, m, c) ==
  CHOOSE v \in {img[i][c] : i \in m} : \A j \in m : v <= img[j][c]

\* sorted[mid] of one channel over the mask pixels, mid = floor(n / 2):
\* the value with at most mid values below it and more than mid values <= it.
ChannelMedian(img, m, c) ==
  LET mid == Cardinality(m) \div 2
  IN  CHOOSE v \in {img[i][c] : i \in m} :
        /\ Cardinality({i \in m : img[i][c] < v}) <= mid
        /\ Cardinality({i \in m : img[i][c] <= v}) > mid

\* rVals[mid] is undefined for an empty mask
PaperColour(img, m) ==
  IF m = {} THEN <<>>
  ELSE <<ChannelMedian(img, m, 1), ChannelMedian(img, m, 2), ChannelMedian(img, m, 3)>>

Max3(a, b, c) == Max2(a, Max2(b, c))
Min3(a, b, c) == Min2(a, Min2(b, c))

\* Variant of IsPaperLike that accepts every estimated colour as paper.
AlwaysPaperLike(pc3) == pc3 # <<>>

\* paperBright > 160 && paperSpread < 50 (NaN comparisons are false)
IsPaperLike(pc3) ==
  /\ pc3 # <<>>
  /\ pc3[1] + pc3[2] + pc3[3] > 3 * 160
  /\ Max3(pc3[1], pc3[2], pc3[3]) - Min3(pc3[1], pc3[2], pc3[3]) < 50

\* lines 172-175: dr * dr + dg * dg + db * db
ColourDistSq(p, pc3) ==
  (p[1] - pc3[1]) * (p[1] - pc3[1]) + (p[2] - pc3[2]) * (p[2] - pc3[2])
    + (p[3] - pc3[3]) * (p[3] - pc3[3])

SetAlpha(p, a) == <<p[1], p[2], p[3], a>>

\* Variant of MaskPixel that applies the pure-white rule inside every mask.
MaskPixelWhiteOnly(p, inMask, paperLike, pc3) ==
  IF ~inMask THEN SetAlpha(p, 0)
  ELSE (IF IsWhite(p) THEN SetAlpha(p, 0) ELSE p)

\* Variant of MaskPixel that leaves the pixels outside the mask alone.
MaskPixelKeepOutside(p, inMask, paperLike, pc3) ==
  IF ~inMask THEN p
  ELSE IF paperLike
       THEN (IF ColourDistSq(p, pc3) < DistSq THEN SetAlpha(p, 0) ELSE p)
       ELSE (IF IsWhite(p) THEN SetAlpha(p, 0) ELSE p)

\* part_000:165-184: the masker's decision for one pixel
MaskPixel(p, inMask, paperLike, pc3) ==
  IF ~inMask THEN SetAlpha(p, 0)
  ELSE IF paperLike
       THEN (IF ColourDistSq(p, pc3) < DistSq THEN SetAlpha(p, 0) ELSE p)
       ELSE (IF IsWhite(p) THEN SetAlpha(p, 0) ELSE p)

\* Variant of RemoveWhite that tests the channels with || instead of &&.
RemoveAnyLight(p) ==
  IF p[1] > WhiteThreshold \/ p[2] > WhiteThreshold \/ p[3] > WhiteThreshold
  THEN SetAlpha(p, 0) ELSE p

\* Variant of UsesMasker that runs the masker in every variant.
EveryVariantMasks(v) == TRUE

\* Which variants have the masker/white-removal section (part_000:137-213,
\* part_001:140-216); the second geometric variant has none.
UsesMasker(v) == v \in {"flood", "geo1"}

\* part_000:208-212, server.js:125-129: the whole-frame white removal
RemoveWhite(p) == IF IsWhite(p) THEN SetAlpha(p, 0) ELSE p

ISqrt(n) == CHOOSE s \in 0 .. 150 : s * s <= n /\ n < (s + 1) * (s + 1)

\* Where paperC + d * boost is exactly half an integer the doubles of lines
\* 199-203 can fall just below the half, and Math.round then gives one less
\* than the exact rounding.  <<d, dist, lo, hi>>: it does for the channel
\* difference d at the (whole) distance dist when lo <= paperC <= hi.
BoostTieDown ==
  {<<-125, 141, 218, 255>>, <<-125, 144, 208, 255>>,
   <<-85, 105, 230, 255>>, <<-75, 79, 255, 255>>, <<-75, 97, 219, 255>>,
   <<-75, 110, 193, 255>>, <<-75, 123, 167, 255>>, <<-75, 141, 131, 255>>,
   <<-75, 144, 125, 252>>, <<-75, 149, 115, 242>>, <<-45, 105, 122, 249>>,
   <<-45, 110, 116, 243>>, <<-27, 50, 113, 240>>, <<-25, 54, 102, 229>>,
   <<-25, 123, 56, 119>>, <<-25, 141, 44, 107>>, <<-21, 25, 102, 229>>,
   <<-15, 25, 73, 200>>, <<-15, 50, 63, 126>>, <<-9, 25, 44, 107>>,
   <<-3, 25, 15, 30>>, <<25, 51, 0, 24>>, <<25, 120, 0, 6>>,
   <<25, 138, 0, 18>>, <<27, 125, 0, 5>>, <<45, 115, 0, 18>>,
   <<45, 120, 0, 24>>, <<51, 125, 0, 17>>, <<55, 120, 0, 1>>,
   <<57, 125, 0, 4>>, <<75, 84, 0, 10>>, <<75, 102, 0, 46>>,
   <<75, 115, 0, 72>>, <<75, 128, 0, 98>>, <<75, 143, 0, 1>>,
   <<75, 146, 0, 7>>, <<75, 148, 0, 11>>, <<85, 120, 0, 59>>,
   <<95, 120, 0, 36>>, <<99, 125, 0, 40>>, <<105, 120, 0, 13>>,
   <<105, 125, 0, 27>>, <<111, 125, 0, 14>>, <<117, 125, 0, 1>>,
   <<125, 138, 0, 27>>}

\* Math.max(0, Math.min(255, Math.round(paperC + d * boost))) with
\* boost = 1.5 + 4 * Math.max(0, 1 - Math.sqrt(dd) / 150); Math.round(x) is
\* the largest k with k <= x + 0.5, that is the floor of
\* (75 * (2 * paperC + 1 + 11 * d) - 4 * d * sqrt(dd)) / 150.  floorY is the
\* whole part of 4 * |d| * sqrt(dd).
BoostChannel(p, d, dd) ==
  IF dd >= 150 * 150
  THEN Max2(0, Min2(255, (2 * p + 3 * d + 1) \div 2))
  ELSE LET s == ISqrt(dd)
           x == 4 * Abs(d)
           g == dd - s * s
           j == CHOOSE k \in ((x * g) \div (2 * s + 1)) ..
                             ((x * g) \div Max2(2 * s, 1)) :
                  /\ 2 * x * s * k + k * k <= x * x * g
                  /\ 2 * x * s * (k + 1) + (k + 1) * (k + 1) > x * x * g
           floorY == x * s + j
           ceilY == IF g = 0 THEN floorY ELSE floorY + 1
           a2 == 75 * (2 * p + 1 + 11 * d)
           exact == IF d >= 0 THEN (a2 - ceilY) \div 150
                    ELSE (a2 + floorY) \div 150
           down == /\ g = 0
                   /\ \E t \in BoostTieDown :
                        t[1] = d /\ t[2] = s /\ t[3] <= p /\ p <= t[4]
       IN  Max2(0, Min2(255, IF down THEN exact - 1 ELSE exact))

\* part_000:193-205: the boost's decision for one pixel
\* Variant of BoostPixel that also boosts the transparent pixels of the mask.
BoostIgnoringAlpha(p, inMask, pc3) ==
  IF inMask
  THEN LET dd == ColourDistSq(p, pc3)
       IN  <<BoostChannel(pc3[1], p[1] - pc3[1], dd),
             BoostChannel(pc3[2], p[2] - pc3[2], dd),
             BoostChannel(pc3[3], p[3] - pc3[3], dd), p[4]>>
  ELSE p

BoostPixel(p, inMask, pc3) ==
  IF p[4] > 0 /\ inMask
  THEN LET dd == ColourDistSq(p, pc3)
       IN  <<BoostChannel(pc3[1], p[1] - pc3[1], dd),
             BoostChannel(pc3[2], p[2] - pc3[2], dd),
             BoostChannel(pc3[3], p[3] - pc3[3], dd), p[4]>>
  ELSE p

-----------------------------------------------------------------------------
(* Crop: part_000:215-245 *)

\* Variant of MaskBox that keeps the whole frame.
WholeFrame(m, w, h) == <<0, 0, w - 1, h - 1>>

\* lines 221-231: bounding box <<minX, minY, maxX, maxY>> of the mask
MaskBox(m, w, h) ==
  LET xs == {PixelX(i, w) : i \in m}
      ys == {PixelY(i, w) : i \in m}
  IN  IF m = {} THEN <<w, h, 0, 0>>
      ELSE <<CHOOSE x \in xs : \A z \in xs : x <= z,
             CHOOSE y \in ys : \A z \in ys : y <= z,
             CHOOSE x \in xs : \A z \in xs : x >= z,
             CHOOSE y \in ys : \A z \in ys : y >= z>>

CropW(box) == box[3] - box[1] + 1
CropH(box) == box[4] - box[2] + 1

\* Buffer.alloc rejects a negative size; sharp rejects a raw width or height < 1
CropFails(box) == CropW(box) < 1 \/ CropH(box) < 1

\* Variant of CropCopy that copies from the frame's top-left corner.
CropCopyFromOrigin(img, box, w) ==
  [j \in 0 .. (CropW(box) * CropH(box) - 1) |->
     img[(j \div CropW(box)) * w + (j % CropW(box))]]

\* lines 236-240: row-by-row copy of the sub-rectangle
CropCopy(img, box, w) ==
  [j \in 0 .. (CropW(box) * CropH(box) - 1) |->
     img[(box[2] + (j \div CropW(box))) * w + box[1] + (j % CropW(box))]]


-----------------------------------------------------------------------------
(* processImage, flood-fill variant, as a sequence of steps *)

Total == width * height

\* The module object require('@techstark/opencv-js') yields; require caches
\* it, so every load yields this one object.
Engine == "cv"

\* The engine cache before any call of initCV (part_001:7).
CvIdle ==
  /\ cvPromise = NoPromise /\ cvLoads = 0 /\ cvResolved = <<>>
  /\ callerPc = <<>> /\ callerCv = <<>>

\* The server's module variables as declared (server.js:15-20); no request
\* has been made.
SrvIdle ==
  /\ heroTurtle = Null /\ turtles = <<>> /\ nextId = 1
  /\ commandQueue = <<>> /\ rateLimitMap = <<>> /\ now = 0
  /\ pending = <<>> /\ reply = <<>> /\ served = <<>>

\* The engine cache once `const cv = await initCV()` (part_001:31, 288) has
\* returned to the one call in progress: initCV stored the promise and
\* registered one then() callback on the engine module, the callback resolved
\* the promise with the module, and the call resumed with that value.
CvLoaded ==
  /\ cvPromise = 1 /\ cvLoads = 1 /\ cvResolved = <<Engine>>
  /\ callerPc = <<"running">> /\ callerCv = <<<<1, Engine>>>>

\* State shared by every variant at entry, after sharp has decoded `img`.
Decoded(v, w, h, img) ==
  /\ variant = v
  /\ pc = "start"
  /\ width = w /\ height = h
  /\ input = img /\ data = img
  /\ startIdx = -1
  /\ visited = {} /\ mask = {}
  /\ stack = <<>>
  /\ fillCount = 0 /\ edgeTouchPixels = 0 /\ touchesEdge = FALSE
  /\ useShellMask = FALSE /\ hint = Null
  /\ erodeStep = 0
  /\ paper = <<>> /\ hasPaperColor = FALSE
  /\ candidates = <<>> /\ counts = <<>>
  /\ circle = <<>> /\ bestScore = <<0, 1, 1>>
  /\ outWidth = w /\ outHeight = h /\ outData = <<>>

Entry(v, w, h, img) == Decoded(v, w, h, img) /\ CvIdle /\ SrvIdle

InitFlood ==
  \E sz \in FloodSizes, m \in 0 .. MaxMargin, g \in 0 .. MaxGap,
     blob \in 0 .. 2, fc \in FrameColours, top \in TopColours,
     bottom \in BottomColours :
    /\ fc = Black \/ g = 0
    /\ blob = 0 \/ g = 0
    /\ sz[1] <= MaxSide \/ (m = 0 /\ g = 0 /\ top = White)
    /\ Entry("flood", sz[1], sz[2],
             PageImage(sz[1], sz[2], m, g, blob, fc, top, bottom))

\* part_000:34-64
FloodStart ==
  /\ variant = "flood" /\ pc = "start"
  /\ LET s == FindStart(data, width, height)
     IN  /\ startIdx' = s
         /\ IF s >= 0
            THEN /\ visited' = {s} /\ mask' = {s} /\ stack' = <<s>>
                 /\ pc' = "fill"
            ELSE /\ UNCHANGED <<visited, mask, stack>>
                 /\ pc' = "hint"
  /\ UNCHANGED <<imgVars, data, useShellMask, hint, fillCount,
                 edgeTouchPixels, touchesEdge, erodeStep, paperVars, geoVars,
                 outVars, cvVars, srvVars>>

\* part_000:66-96: one iteration of the while loop
FloodFillStep ==
  /\ variant = "flood" /\ pc = "fill" /\ stack # <<>>
  /\ LET idx == stack[Len(stack)]
         rest == SubSeq(stack, 1, Len(stack) - 1)
         nb == Neighbours(idx, width, height)
         push == Pushed(nb, visited, data)
     IN  /\ fillCount' = fillCount + 1
         /\ IF OnEdge(idx, width, height)
            THEN /\ touchesEdge' = TRUE
                 /\ edgeTouchPixels' = edgeTouchPixels + 1
                 /\ stack' = rest
                 /\ pc' = IF rest = <<>> THEN "accept" ELSE "fill"
                 /\ UNCHANGED <<visited, mask>>
            ELSE IF FillTooLarge(fillCount + 1, Total)
            THEN /\ touchesEdge' = TRUE
                 /\ stack' = rest
                 /\ pc' = "accept"
                 /\ UNCHANGED <<visited, mask, edgeTouchPixels>>
            ELSE /\ visited' = visited \cup SeqRange(nb)
                 /\ mask' = mask \cup SeqRange(push)
                 /\ stack' = rest \o push
                 /\ pc' = IF rest \o push = <<>> THEN "accept" ELSE "fill"
                 /\ UNCHANGED <<touchesEdge, edgeTouchPixels>>
  /\ UNCHANGED <<imgVars, data, useShellMask, hint, startIdx, erodeStep,
                 paperVars, geoVars, outVars, cvVars, srvVars>>

\* part_000:98-102
FloodAccept ==
  /\ variant = "flood" /\ pc = "accept"
  /\ useShellMask' = AcceptFill(fillCount, Total, edgeTouchPixels)
  /\ pc' = IF useShellMask' THEN "erode" ELSE "hint"
  /\ UNCHANGED <<imgVars, data, mask, hint, fillVars, paperVars, geoVars,
                 outVars, cvVars, srvVars>>

\* part_000:106-126: one pass of the erosion loop
FloodErode ==
  /\ variant = "flood" /\ pc = "erode"
  /\ mask' = ErodePass(mask, width, height)
  /\ erodeStep' = erodeStep + 1
  /\ pc' = IF erodeStep + 1 < ErodeSteps THEN "erode" ELSE "hint"
  /\ UNCHANGED <<imgVars, data, useShellMask, hint, startIdx, visited, stack,
                 fillCount, edgeTouchPixels, touchesEdge, paperVars, geoVars,
                 outVars, cvVars, srvVars>>

\* part_000:128-135
FloodHintStep ==
  /\ variant = "flood" /\ pc = "hint"
  /\ hint' = FloodHint(useShellMask, touchesEdge, data, width, height)
  /\ pc' = "mask"
  /\ UNCHANGED <<imgVars, data, mask, useShellMask, fillVars, paperVars,
                 geoVars, outVars, cvVars, srvVars>>

\* part_000:137-184 and 207-213, part_001:140-187 and 210-216:
\* paper colour and masker when a shell was found, else white removal
ApplyMask ==
  /\ UsesMasker(variant) /\ pc = "mask"
  /\ IF useShellMask
     THEN LET pc3 == PaperColour(data, mask)
          IN  /\ paper' = pc3
              /\ hasPaperColor' = IsPaperLike(pc3)
              /\ data' = [i \in Pixels(width, height) |->
                            MaskPixel(data[i], i \in mask, IsPaperLike(pc3), pc3)]
              /\ pc' = IF IsPaperLike(pc3) THEN "boost" ELSE "crop"
     ELSE /\ data' = [i \in Pixels(width, height) |-> RemoveWhite(data[i])]
          /\ pc' = "crop"
          /\ UNCHANGED paperVars
  /\ UNCHANGED <<imgVars, mask, useShellMask, hint, fillVars, geoVars,
                 outVars, cvVars, srvVars>>

\* part_000:186-206, part_001:189-209
Boost ==
  /\ UsesMasker(variant) /\ pc = "boost"
  /\ data' = [i \in Pixels(width, height) |->
                BoostPixel(data[i], i \in mask, paper)]
  /\ pc' = "crop"
  /\ UNCHANGED <<imgVars, mask, useShellMask, hint, fillVars, paperVars,
                 geoVars, outVars, cvVars, srvVars>>

\* Crop and hand the buffer to the encoder.  The function suspends at
\* `await sharp(outData, ...).png().toBuffer()` (pc = "encode"); a Buffer.alloc
\* that throws rejects the promise at once (pc = "failed").  `box` is the crop
\* rectangle, `cropped` the copy of the pixels inside it.
CropTo(box, cropped) ==
  IF useShellMask
  THEN IF CropFails(box)
       THEN /\ pc' = "failed"
            /\ UNCHANGED outVars
       ELSE /\ outWidth' = CropW(box)
            /\ outHeight' = CropH(box)
            /\ outData' = cropped
            /\ pc' = "encode"
  ELSE /\ outData' = data
       /\ pc' = "encode"
       /\ UNCHANGED <<outWidth, outHeight>>

\* part_000:247-255, part_001:244-252 and 423-431, server.js:132-136: the
\* encoder's promise settles and the function returns.  pc = "done" is the
\* resolved promise {imageData, shellDetected: useShellMask, hint} (the data
\* URL alone in server.js).
Encode ==
  /\ variant \in {"flood", "geo1", "geo2", "server"} /\ pc = "encode"
  /\ pc' = "done"
  /\ UNCHANGED <<imgVars, data, mask, useShellMask, hint, fillVars, paperVars,
                 geoVars, outVars, cvVars, srvVars>>

\* part_000:215-247
FloodCrop ==
  /\ variant = "flood" /\ pc = "crop"
  /\ LET box == MaskBox(mask, width, height)
     IN  CropTo(box, CropCopy(data, box, width))
  /\ UNCHANGED <<imgVars, data, mask, useShellMask, hint, fillVars, paperVars,
                 geoVars, cvVars, srvVars>>

-----------------------------------------------------------------------------
(* Geometric variants: src/unnamed/part_001 (geo1 lines 30-253, geo2 287-431) *)

GeoSide == 29             \* width of a geometric-variant raster
MaxCands == 2             \* most circles HoughCircles returns

GeoDarkThreshold == 80    \* data[pi] < 80
Samples == 72             \* const samples = 72

IsBorderDark(p) ==
  p[1] < GeoDarkThreshold /\ p[2] < GeoDarkThreshold /\ p[3] < GeoDarkThreshold

\* Math.floor(Math.min(width, height) * 0.15) and ... * 0.49
MinRadius(w, h) == (Min2(w, h) * 15) \div 100

\* Variant of MaxRadius with 0.55 in place of 0.49.
MaxRadiusWide(w, h) == (Min2(w, h) * 55) \div 100

MaxRadius(w, h) == (Min2(w, h) * 49) \div 100

\* Math.cos / Math.sin of (s / 72) * 2 * Math.PI for s = 0 .. 71: the double,
\* to twelve decimals, is (CosQ[s + 1] * 10^6 + CosR[s + 1]) / 10^12.  To
\* twelve decimals the sine of sample s is the cosine of sample s + 54.
TrigScale == 1000000
CosQ ==
  <<1000000, 996194, 984807, 965925, 939692, 906307, 866025, 819152,
    766044, 707106, 642787, 573576, 500000, 422618, 342020, 258819, 173648,
    87155, 0, -87156, -173649, -258820, -342021, -422619, -500000, -573577,
    -642788, -707107, -766045, -819153, -866026, -906308, -939693, -965926,
    -984808, -996195, -1000000, -996195, -984808, -965926, -939693,
    -906308, -866026, -819153, -766045, -707107, -642788, -573577, -500000,
    -422619, -342021, -258820, -173649, -87156, 0, 87155, 173648, 258819,
    342020, 422618, 500000, 573576, 642787, 707106, 766044, 819152, 866025,
    906307, 939692, 965925, 984807, 996194>>
CosR ==
  <<0, 698092, 753012, 826289, 620786, 787037, 403784, 44289, 443119,
    781187, 609687, 436351, 0, 261741, 143326, 45103, 177667, 742748, 0,
    257252, 822333, 954897, 856674, 738259, 0, 563649, 390313, 218813,
    556881, 955711, 596216, 212963, 379214, 173711, 246988, 301908, 0,
    301908, 246988, 173711, 379214, 212963, 596216, 955711, 556881, 218813,
    390313, 563649, 0, 738259, 856674, 954897, 822333, 257252, 0, 742748,
    177667, 45103, 143326, 261741, 0, 436351, 609687, 781187, 443119,
    44289, 403784, 787037, 620786, 826289, 753012, 698092>>
Cos(s) == <<CosQ[s + 1], CosR[s + 1]>>
Sin(s) == Cos((s + 54) % 72)

\* At the eight angles whose cosine or sine is +-1/2 the double is not exactly
\* a half but sign * (1/2 + j * 2^-54): <<sign, j>>, and <<0, 0>> at every
\* other angle (cos 60 = 0.5000000000000001, cos 120 = -0.4999999999999998,
\* cos 240 = sin 330 = -0.5000000000000004, sin 30 = 0.49999999999999994,
\* sin 210 = -0.5000000000000001).
HalfBits(isSin, s) ==
  IF isSin
  THEN IF s \in {6, 30} THEN <<1, -1>>
       ELSE IF s = 42 THEN <<-1, 2>>
       ELSE IF s = 66 THEN <<-1, 8>>
       ELSE <<0, 0>>
  ELSE IF s \in {12, 60} THEN <<1, 2>>
       ELSE IF s = 24 THEN <<-1, -4>>
       ELSE IF s = 48 THEN <<-1, 8>>
       ELSE <<0, 0>>

\* For odd k at such an angle the real sum c + k/2 is a half-integer H = n2/2,
\* which Math.round takes up, and the double sum is H + e, which it takes
\* down when e < 0.  In units of 2^-54: the product k * f is rounded to the
\* spacing u1 of the doubles around |k|/2 (ties to even), leaving the error
\* e1; the sum is rounded to the spacing of the doubles just below H, which
\* absorbs an error of at most half that spacing.
RoundsBelowHalf(c, k, hb) ==
  LET RECURSIVE Pow2Below(_, _)
      Pow2Below(p, n) == IF 2 * p <= n THEN Pow2Below(2 * p, n) ELSE p
      ak == Abs(k)
      u1 == 2 * Pow2Below(1, ak)
      q == (ak * hb[2]) \div u1
      r == (ak * hb[2]) % u1
      e1 == IF ak = 1 THEN hb[2]
            ELSE u1 * (IF 2 * r > u1 \/ (2 * r = u1 /\ q % 2 = 1)
                       THEN q + 1 ELSE q)
      tau == IF k > 0 THEN hb[1] ELSE -hb[1]
      e == tau * e1
      n2 == 2 * c + tau * ak
      spacing == IF n2 = 1 THEN 1 ELSE 2 * Pow2Below(1, Abs(n2))
  IN  hb[1] # 0 /\ k % 2 # 0 /\ e < 0 /\ 2 * (-e) > spacing

\* Math.round(c + k * f) for f the cosine (sine) of sample angle s
RoundOffset(c, k, isSin, s) ==
  LET f == IF isSin THEN Sin(s) ELSE Cos(s)
  IN  c + ((2 * k * f[1] + ((2 * k * f[2]) \div TrigScale) + TrigScale)
             \div (2 * TrigScale))
        - (IF RoundsBelowHalf(c, k, HalfBits(isSin, s)) THEN 1 ELSE 0)

\* Math.max(10, Math.round(c.r * 0.08))
Band(r) == Max2(10, (2 * r + 12) \div 25)

\* part_001:93-95: is the sample of angle s at radius c.r + dr inside the frame
SampleX(c, s, dr) == RoundOffset(c[1], c[3] + dr, FALSE, s)
SampleY(c, s, dr) == RoundOffset(c[2], c[3] + dr, TRUE, s)

InBounds(x, y, w, h) == x >= 0 /\ x < w /\ y >= 0 /\ y < h

\* part_001:92-103: anyInBounds and foundDark of one angle.  The loop stops
\* at the first dark sample, which is itself in bounds.
AnyInBounds(c, s, w, h) ==
  \E dr \in -Band(c[3]) .. Band(c[3]) :
    InBounds(SampleX(c, s, dr), SampleY(c, s, dr), w, h)

FoundDark(img, c, s, w, h) ==
  \E dr \in -Band(c[3]) .. Band(c[3]) :
    /\ InBounds(SampleX(c, s, dr), SampleY(c, s, dr), w, h)
    /\ IsBorderDark(img[SampleY(c, s, dr) * w + SampleX(c, s, dr)])

\* part_001:87-104: <<dark, valid>> of one candidate
BorderCounts(img, w, h, c) ==
  <<Cardinality({s \in 0 .. Samples - 1 : FoundDark(img, c, s, w, h)}),
    Cardinality({s \in 0 .. Samples - 1 : AnyInBounds(c, s, w, h)})>>

\* part_001:106 / 362: valid < samples * 0.75 || dark < valid * minRatio
\* Variant of Rejected without the dark-fraction test.
RejectedOnCoverageOnly(v, dv) == 4 * dv[2] < 3 * Samples

Rejected(v, dv) ==
  \/ 4 * dv[2] < 3 * Samples
  \/ IF v = "geo1" THEN 10 * dv[1] < 3 * dv[2] ELSE 2 * dv[1] < dv[2]

\* part_001:108 / 365: the score (dark / valid) * c.r, or dark / valid, as
\* <<dark, valid, factor>>; <<0, 1, 1>> is the initial bestScore 0.
Score(v, dv, r) == <<dv[1], dv[2], IF v = "geo1" THEN r ELSE 1>>

\* The double a score <<d, v, r>> evaluates to is
\* d * r / v - ScoreError[1] / (v * 2^(52 + ScoreError[2])).  The quotient d / v
\* is rounded to M * 2^-(52 + e), M a 53-bit integer, with the remainder rho;
\* the product M * r then loses its t lowest bits, rounded to nearest with ties
\* to even, with the remainder lambda.  M enters only through its 11 lowest
\* bits ml, found from d * 2^(52 + e) modulo v * 2048.
ScoreError(sc) ==
  LET RECURSIVE Pow2(_), Pow2Mod(_, _)
      Pow2(n) == IF n = 0 THEN 1 ELSE 2 * Pow2(n - 1)
      Pow2Mod(n, m) == IF n = 0 THEN 1 % m ELSE (2 * Pow2Mod(n - 1, m)) % m
      d == sc[1]
      v == sc[2]
      r == sc[3]
      e == CHOOSE i \in 0 .. 7 :
             d * Pow2(i) >= v /\ (i > 0 => d * Pow2(i - 1) < v)
      x == (d * Pow2Mod(52 + e, v * 2048)) % (v * 2048)
      rho == IF 2 * (x % v) < v THEN x % v ELSE (x % v) - v
      ml == ((x - rho) % (v * 2048)) \div v
      t == Cardinality({i \in 1 .. 10 :
             \/ d * r * Pow2(e) > v * Pow2(i)
             \/ d * r * Pow2(e) = v * Pow2(i) /\ rho <= 0})
      low == (ml * r) % Pow2(t)
      half == Pow2(t) \div 2
      lambda == IF t = 0 THEN 0
                ELSE IF low < half THEN low
                ELSE IF low > half THEN low - Pow2(t)
                ELSE IF ((ml * r) \div Pow2(t)) % 2 = 0 THEN half
                ELSE -half
  IN  IF d = 0 \/ r = 0 THEN <<0, 0>> ELSE <<rho * r + lambda * v, Pow2(e)>>

\* a > b and a === b on the doubles: scores that differ as fractions differ
\* far more than the doubles are off, equal fractions are told apart by the
\* errors of their doubles.  0 / 0 is NaN, which compares false.
ScoreGreater(a, b) ==
  LET ea == ScoreError(a)
      eb == ScoreError(b)
  IN  /\ a[2] > 0 /\ b[2] > 0
      /\ \/ a[1] * a[3] * b[2] > b[1] * b[3] * a[2]
         \/ /\ a[1] * a[3] * b[2] = b[1] * b[3] * a[2]
            /\ ea[1] * b[2] * eb[2] < eb[1] * a[2] * ea[2]

ScoreEqual(a, b) ==
  /\ a[2] > 0 /\ b[2] > 0
  /\ ~ScoreGreater(a, b) /\ ~ScoreGreater(b, a)

\* part_001:109 / 366: does a candidate of radius r and score sc replace the
\* best so far (bestR is the radius of the best so far, 0 when there is none)
Better(v, sc, r, best, bestR) ==
  \/ ScoreGreater(sc, best)
  \/ v = "geo2" /\ ScoreEqual(sc, best) /\ r > bestR

\* part_001:118 / 393: circleR - Math.max(8, Math.round(circleR * 0.15)),
\*                     circleR - Math.max(4, Math.round(circleR * 0.05))
InsetR(v, r) ==
  IF v = "geo1" THEN r - Max2(8, (3 * r + 10) \div 20)
  ELSE r - Max2(4, (r + 10) \div 20)

InCircle(i, w, c, ir) ==
  LET dx == PixelX(i, w) - c[1]
      dy == PixelY(i, w) - c[2]
  IN  dx * dx + dy * dy <= ir * ir

\* part_001:119-128
CircleMask(w, h, c, ir) == {i \in Pixels(w, h) : InCircle(i, w, c, ir)}

\* part_001:225-228 / 395-398: <<minX, minY, maxX, maxY>>
CircleBox(w, h, c, ir) ==
  <<Max2(0, c[1] - ir), Max2(0, c[2] - ir),
    Min2(w - 1, c[1] + ir), Min2(h - 1, c[2] + ir)>>

\* part_001:403-415: the copy with the pixels outside the circle made transparent
CircleCropCopy(img, box, w, c, ir) ==
  [j \in 0 .. (CropW(box) * CropH(box) - 1) |->
     LET i == (box[2] + (j \div CropW(box))) * w + box[1] + (j % CropW(box))
     IN  IF InCircle(i, w, c, ir) THEN img[i] ELSE SetAlpha(img[i], 0)]

\* Input family: a white canvas with a ring (the printed shell outline) of
\* radius rr around (ccx, ccy), two pixels thick, and a coloured interior.
RingPixel(x, y, ccx, ccy, rr, rc, fill) ==
  LET d2 == (x - ccx) * (x - ccx) + (y - ccy) * (y - ccy)
  IN  IF d2 <= (rr + 1) * (rr + 1) /\ d2 > (rr - 1) * (rr - 1) THEN rc
      ELSE IF d2 <= (rr - 1) * (rr - 1) THEN fill
      ELSE White

RingImage(w, h, ccx, ccy, rr, rc, fill) ==
  [i \in Pixels(w, h) |->
     RingPixel(PixelX(i, w), PixelY(i, w), ccx, ccy, rr, rc, fill)]

GeoSizes == {<<GeoSide, GeoSide + 3>>}
RingColours == {Black, Gray70, White}
FillColours == {Pencil, DarkBlue, Black}

\* The ring is centred, or pushed right so that the frame clips it.
RingCentres(w, h) == {<<w \div 2, h \div 2>>, <<w - 2, h \div 2>>}

\* What HoughCircles may return: circles with a radius between minRadius and
\* maxRadius, around the centre of the frame or near its right edge.
HoughCircles(w, h) ==
  {<<w \div 2, h \div 2, MaxRadius(w, h)>>,
   <<w \div 2, h \div 2, MaxRadius(w, h) - 1>>,
   <<w - 2, h \div 2, MaxRadius(w, h) - 1>>,
   <<w - 2, (h \div 2) + 1, MinRadius(w, h) + 2>>,
   <<w \div 2, h \div 2, MinRadius(w, h)>>}

InitGeo ==
  \E v \in {"geo1", "geo2"}, sz \in GeoSizes, rc \in RingColours,
     fill \in FillColours :
    \E cc \in RingCentres(sz[1], sz[2]) :
      /\ Decoded(v, sz[1], sz[2],
                 RingImage(sz[1], sz[2], cc[1], cc[2],
                           MaxRadius(sz[1], sz[2]) - 1, rc, fill))
      /\ CvLoaded
      /\ SrvIdle

\* part_001:70-115 / 326-373: one iteration of the loop over the circles
\* HoughCircles returned; the next circle is any it may have returned.
GeoScore ==
  /\ variant \in {"geo1", "geo2"} /\ pc = "start"
  /\ Len(candidates) < MaxCands
  /\ \E c \in HoughCircles(width, height) :
       /\ candidates' = Append(candidates, c)
       /\ counts' = Append(counts, BorderCounts(data, width, height, c))
       /\ LET dv == counts'[Len(counts')]
              sc == Score(variant, dv, c[3])
              bestR == IF circle = <<>> THEN 0 ELSE circle[3]
          IN  IF ~Rejected(variant, dv) /\ Better(variant, sc, c[3], bestScore, bestR)
              THEN bestScore' = sc /\ circle' = c
              ELSE UNCHANGED <<bestScore, circle>>
  /\ UNCHANGED <<imgVars, pc, data, mask, useShellMask, hint, fillVars,
                 paperVars, outVars, cvVars, srvVars>>

\* part_001:117-138 / 375-385: after the last circle.  Only geo1 builds the
\* mask; geo2 tests the circle during the crop.
GeoSelect ==
  /\ variant \in {"geo1", "geo2"} /\ pc = "start"
  /\ useShellMask' = ScoreGreater(bestScore, <<0, 1, 1>>)
  /\ mask' = IF useShellMask' /\ variant = "geo1"
             THEN CircleMask(width, height, circle, InsetR(variant, circle[3]))
             ELSE mask
  /\ hint' = Null
  /\ pc' = IF UsesMasker(variant) THEN "mask" ELSE "crop"
  /\ UNCHANGED <<imgVars, data, fillVars, paperVars, geoVars, outVars, cvVars, srvVars>>

\* part_001:218-244 (geo1) and 387-423 (geo2)
GeoCrop ==
  /\ variant \in {"geo1", "geo2"} /\ pc = "crop"
  /\ IF useShellMask
     THEN LET ir == InsetR(variant, circle[3])
              box == CircleBox(width, height, circle, ir)
          IN  CropTo(box, IF variant = "geo1"
                          THEN CropCopy(data, box, width)
                          ELSE CircleCropCopy(data, box, width, circle, ir))
     ELSE CropTo(<<>>, <<>>)
  /\ UNCHANGED <<imgVars, data, mask, useShellMask, hint, fillVars, paperVars,
                 geoVars, cvVars, srvVars>>

NextGeo ==
  \/ GeoScore
  \/ GeoSelect
  \/ ApplyMask
  \/ Boost
  \/ GeoCrop
  \/ Encode

SpecGeo == InitGeo /\ [][NextGeo]_vars

NextFlood ==
  \/ FloodStart
  \/ FloodFillStep
  \/ FloodAccept
  \/ FloodErode
  \/ FloodHintStep
  \/ ApplyMask
  \/ Boost
  \/ FloodCrop
  \/ Encode

SpecFlood == InitFlood /\ [][NextFlood]_vars

-----------------------------------------------------------------------------
(* The server's built-in processImage: src/server.js:116-137 *)

InitServer ==
  \E sz \in FloodSizes, m \in 0 .. MaxMargin, top \in TopColours,
     bottom \in BottomColours :
    Entry("server", sz[1], sz[2],
          PageImage(sz[1], sz[2], m, 0, 0, Black, top, bottom))

\* server.js:124-134: white removal over the whole buffer, then the encoder
\* is awaited.  The function has no shell detection and no hint.
ServerProcess ==
  /\ variant = "server" /\ pc = "start"
  /\ data' = [i \in Pixels(width, height) |-> RemoveWhite(data[i])]
  /\ outData' = data'
  /\ pc' = "encode"
  /\ UNCHANGED <<imgVars, mask, useShellMask, hint, fillVars, paperVars,
                 geoVars, outWidth, outHeight, cvVars, srvVars>>

-----------------------------------------------------------------------------
(* All variants of processImage *)

Init == InitFlood \/ InitGeo \/ InitServer

Next == NextFlood \/ NextGeo \/ ServerProcess \/ Encode

Spec == Init /\ [][Next]_vars

-----------------------------------------------------------------------------
(* initCV: src/unnamed/part_001:7-18 and 264-275.  Callers are the            *)
(* `await initCV()` of processImage (part_001:31, 288) and of the tests'      *)
(* warm-up.  JavaScript runs initCV to completion before any other callback. *)

MaxCallers == 5           \* concurrent callers of initCV

Callers == 1 .. MaxCallers

\* Variant of NeedsInit that starts an initialization on every call.
AlwaysInit(p) == TRUE

\* part_001:9: if (!cvPromise)
NeedsInit(p) == p = NoPromise

InitCV ==
  /\ Decoded("initCV", 0, 0, <<>>)
  /\ cvPromise = NoPromise /\ cvLoads = 0 /\ cvResolved = <<>>
  /\ callerPc = [k \in Callers |-> "idle"]
  /\ callerCv = [k \in Callers |-> <<NoPromise, Null>>]
  /\ SrvIdle

\* part_001:8-18: one call of initCV by caller k.  A new promise registers one
\* then() callback on the engine module; the caller suspends on the promise.
CallInitCV(k) ==
  /\ callerPc[k] = "idle"
  /\ IF NeedsInit(cvPromise)
     THEN /\ cvLoads' = cvLoads + 1
          /\ cvPromise' = cvLoads'
          /\ cvResolved' = Append(cvResolved, Null)
     ELSE UNCHANGED <<cvPromise, cvLoads, cvResolved>>
  /\ callerCv' = [callerCv EXCEPT ![k] = <<cvPromise', Null>>]
  /\ callerPc' = [callerPc EXCEPT ![k] = "awaiting"]

\* part_001:11-14: the engine's then() callback runs: resolve(cv)
EngineReady(p) ==
  /\ p \in 1 .. Len(cvResolved)
  /\ cvResolved[p] = Null
  /\ cvResolved' = [cvResolved EXCEPT ![p] = Engine]
  /\ UNCHANGED <<cvPromise, cvLoads, callerPc, callerCv>>

\* part_001:31: const cv = await initCV() resumes with the promise's value
Resume(k) ==
  /\ callerPc[k] = "awaiting"
  /\ cvResolved[callerCv[k][1]] # Null
  /\ callerCv' = [callerCv EXCEPT ![k] = <<@[1], cvResolved[@[1]]>>]
  /\ callerPc' = [callerPc EXCEPT ![k] = "running"]
  /\ UNCHANGED <<cvPromise, cvLoads, cvResolved>>

ImageUnchanged ==
  UNCHANGED <<imgVars, pc, data, mask, useShellMask, hint, fillVars,
              paperVars, geoVars, outVars, srvVars>>

NextCV ==
  \/ \E k \in Callers : CallInitCV(k) /\ ImageUnchanged
  \/ \E p \in 1 .. MaxCallers : EngineReady(p) /\ ImageUnchanged
  \/ \E k \in Callers : Resume(k) /\ ImageUnchanged

SpecCV == InitCV /\ [][NextCV]_vars

-----------------------------------------------------------------------------
(* The server's routes: src/server.js.  A string a client sends is the      *)
(* sequence of its UTF-16 code units ("x" is <<120>>, a tab <<9>>); a field  *)
(* or parameter the client left out is Undefined, one it sent more than     *)
(* once, which the parsers deliver as an array, is AnArray.  An upload is    *)
(* [ip, eventCode, name, photo, mimetype, size]; photo is "none" when the    *)
(* form has no file, "png" for bytes sharp can decode and "garbage" for      *)
(* bytes sharp rejects; mimetype and size (in bytes) describe the file.  A   *)
(* poll is [ip, eventCode, knownIds].  JavaScript runs a handler without     *)
(* interruption up to its first await and again from the await to its end.   *)

MaxInFlight == 2          \* upload handlers suspended at the same time
MaxUploads == 32          \* uploads let past validation
MaxWrongCodes == 22       \* wrong event codes sent by one client

MAX_TURTLES == 30         \* const MAX_TURTLES = 30
MaxNameLength == 30       \* name.trim().length > 30
RateLimit == 20           \* entry.count <= 20
RateWindow == 60000       \* resetTime: now + 60000
CleanupInterval == 300000 \* setInterval(..., 5 * 60 * 1000)
EVENT_CODE == "1234"      \* process.env.EVENT_CODE || '1234'
MaxFileSize == 5242880    \* limits: { fileSize: 5 * 1024 * 1024 }

Undefined == <<-1>>       \* req.body.name, req.query.knownIds is undefined
AnArray == <<-2>>         \* the value is an array of strings, not a string

Rep(c, n) == [i \in 1 .. n |-> c]

\* The code units String.prototype.trim removes: the white space and line
\* terminators of ECMAScript (tab, LF, VT, FF, CR, space, NBSP, U+1680,
\* U+2000 .. U+200A, LS, PS, U+202F, U+205F, U+3000, BOM).
WhiteSpace ==
  {9, 10, 11, 12, 13, 32, 160, 5760, 8232, 8233, 8239, 8287, 12288, 65279}
    \cup (8192 .. 8202)

RECURSIVE TrimStart(_)
TrimStart(s) ==
  IF s # <<>> /\ Head(s) \in WhiteSpace THEN TrimStart(Tail(s)) ELSE s

RECURSIVE TrimEnd(_)
TrimEnd(s) ==
  IF s # <<>> /\ s[Len(s)] \in WhiteSpace
  THEN TrimEnd(SubSeq(s, 1, Len(s) - 1)) ELSE s

\* String.prototype.trim
Trim(s) == TrimEnd(TrimStart(s))

\* server.js:235: !name || name.trim().length === 0, for a name that is
\* undefined or a string
NameMissing(name) == name = Undefined \/ name = <<>> \/ Len(Trim(name)) = 0

\* server.js:23-32: the error upload.single('photo') passes on instead of
\* calling the route handler, Null when it calls the handler: the fileFilter
\* refuses a file whose mimetype does not start with "image/", the size
\* limit one of more than 5 MB.
Refusal(req) ==
  LET prefix == <<105, 109, 97, 103, 101, 47>>
      isImage == /\ Len(req.mimetype) >= Len(prefix)
                 /\ SubSeq(req.mimetype, 1, Len(prefix)) = prefix
  IN  IF req.photo = "none" THEN Null
      ELSE IF ~isImage THEN "Only image files are allowed"
      ELSE IF req.size > MaxFileSize THEN "LIMIT_FILE_SIZE"
      ELSE Null

\* server.js:321-330: the status the error handler answers an error with
ErrorStatus(err) ==
  IF err = "LIMIT_FILE_SIZE" THEN 400
  ELSE IF err = "Only image files are allowed" THEN 400
  ELSE 500

\* server.js:239: name.trim().length > 30
NameTooLong(name) == Len(Trim(name)) > MaxNameLength

\* server.js:227: eventCode !== EVENT_CODE
CodeRejected(code) == code # EVENT_CODE

\* Variant of Decodes that takes every uploaded file for an image.
EverythingDecodes(photo) == TRUE

\* server.js:118-122: sharp(buffer)...toBuffer() resolves
Decodes(photo) == photo = "png"

\* Variant of RateEntry that opens a new window at the reset time itself.
RateEntryEarly(ip) ==
  IF ip \notin DOMAIN rateLimitMap \/ now >= rateLimitMap[ip].resetTime
  THEN [count |-> 0, resetTime |-> now + RateWindow]
  ELSE rateLimitMap[ip]

\* server.js:93-99: the entry checkRateLimit counts in
RateEntry(ip) ==
  IF ip \notin DOMAIN rateLimitMap \/ now > rateLimitMap[ip].resetTime
  THEN [count |-> 0, resetTime |-> now + RateWindow]
  ELSE rateLimitMap[ip]

\* server.js:100: entry.count++, stored in the map
Counted(ip) ==
  [i \in DOMAIN rateLimitMap \cup {ip} |->
     IF i = ip THEN [RateEntry(ip) EXCEPT !.count = @ + 1]
     ELSE rateLimitMap[i]]

\* server.js:101: return entry.count <= 20
WithinLimit(ip) == Counted(ip)[ip].count <= RateLimit

\* Variant of Evict that drops the newest turtles.
RECURSIVE EvictNewest(_)
EvictNewest(ts) ==
  IF Len(ts) > MAX_TURTLES THEN EvictNewest(SubSeq(ts, 1, Len(ts) - 1)) ELSE ts

\* server.js:274-276: while (turtles.length > MAX_TURTLES) turtles.shift()
RECURSIVE Evict(_)
Evict(ts) == IF Len(ts) > MAX_TURTLES THEN Evict(Tail(ts)) ELSE ts

\* server.js:77-88: the turtle generateHeroTurtle stores
Hero == [id |-> "hero",
         name |-> <<76, 105, 108, 121, 39, 115, 32,
                    84, 117, 114, 116, 108, 101>>]     \* "Lily's Turtle"

\* server.js:334-335: the server listens once the hero turtle exists.
Listening ==
  /\ Decoded("routes", 0, 0, <<>>)
  /\ CvIdle
  /\ heroTurtle = Hero /\ turtles = <<>> /\ nextId = 1
  /\ commandQueue = <<>> /\ rateLimitMap = <<>> /\ now = 0
  /\ pending = <<>> /\ reply = <<>> /\ served = <<>>

Respond(status, id, req) == reply' = [status |-> status, id |-> id, req |-> req]

\* server.js:223-247 and 279-282: POST /api/upload up to `await
\* processImage`.  A file multer refuses goes to the error handler and the
\* route handler does not run; name.trim() of a name that is not a string
\* throws inside the try block, whose catch answers 500.
UploadRequest(req) ==
  /\ variant = "routes"
  /\ IF Refusal(req) # Null
     THEN /\ Respond(ErrorStatus(Refusal(req)), Null, req)
          /\ UNCHANGED <<rateLimitMap, pending>>
     ELSE IF CodeRejected(req.eventCode)
     THEN /\ rateLimitMap' = Counted(req.ip)
          /\ Respond(IF WithinLimit(req.ip) THEN 403 ELSE 429, Null, req)
          /\ UNCHANGED pending
     ELSE /\ UNCHANGED rateLimitMap
          /\ IF req.name = AnArray
             THEN Respond(500, Null, req) /\ UNCHANGED pending
             ELSE IF NameMissing(req.name) \/ NameTooLong(req.name)
                     \/ req.photo = "none"
             THEN Respond(400, Null, req) /\ UNCHANGED pending
             ELSE pending' = Append(pending, req) /\ UNCHANGED reply
  /\ UNCHANGED <<heroTurtle, turtles, nextId, commandQueue, now, served>>

\* Variant of TurtleId that numbers the turtles by their slot in a full roster.
TurtleSlot(n) == ToString(((n - 1) % MAX_TURTLES) + 1)

\* server.js:250: String(nextId++), the id of the turtle being created
TurtleId(n) == ToString(n)

Without(s, k) == SubSeq(s, 1, k - 1) \o SubSeq(s, k + 1, Len(s))

\* server.js:247-282: processImage settles and the k-th suspended handler
\* runs to its end
UploadResume(k) ==
  /\ variant = "routes"
  /\ k \in 1 .. Len(pending)
  /\ pending' = Without(pending, k)
  /\ IF Decodes(pending[k].photo)
     THEN LET turtle == [id |-> TurtleId(nextId),
                         name |-> Trim(pending[k].name)]
          IN /\ nextId' = nextId + 1
             /\ turtles' = Evict(Append(turtles, turtle))
             /\ served' = Append(served, turtle)
             /\ Respond(200, turtle.id, pending[k])
     ELSE /\ Respond(500, Null, pending[k])
          /\ UNCHANGED <<turtles, nextId, served>>
  /\ UNCHANGED <<heroTurtle, commandQueue, rateLimitMap, now>>

RoutesUnchanged ==
  UNCHANGED <<imgVars, pc, data, mask, useShellMask, hint, fillVars,
              paperVars, geoVars, outVars, cvVars>>

\* The clients of the model: one guest's address, the names and files the
\* upload form can send.  GoodName is 30 times "x", PaddedName the same
\* between a space and a tab and a line feed and a no-break space.
GoodName == Rep(120, MaxNameLength)
Names ==
  LET PaddedName == <<32, 9>> \o GoodName \o <<10, 160>>
  IN  {Undefined, AnArray, <<>>, <<32, 9, 160>>, GoodName, PaddedName,
       Rep(120, MaxNameLength + 1)}
EventCodes == {EVENT_CODE, "0000"}

\* An upload of an image file of 1 KB, typed "image/png".
Upload(ip, code, name, photo) ==
  [ip |-> ip, eventCode |-> code, name |-> name, photo |-> photo,
   mimetype |-> <<105, 109, 97, 103, 101, 47, 112, 110, 103>>, size |-> 1024]

\* One request of every kind the upload route tells apart: each name with a
\* good file, the good name with each file -- none, undecodable, typed
\* "text/plain", one byte over the size limit -- and a wrong event code with a
\* good and with a refused file.
AnyRequests ==
  LET png(c) == Upload("10.0.0.1", c, GoodName, "png")
      text(c) == [png(c) EXCEPT
                    !.mimetype = <<116, 101, 120, 116, 47, 112, 108, 97, 105, 110>>]
  IN  {Upload("10.0.0.1", EVENT_CODE, n, "png") : n \in Names}
        \cup {Upload("10.0.0.1", EVENT_CODE, GoodName, p) : p \in {"none", "garbage"}}
        \cup {text(c) : c \in EventCodes}
        \cup {[png(EVENT_CODE) EXCEPT !.size = MaxFileSize + 1], png("0000")}

WrongCodesSent(ip) ==
  IF ip \in DOMAIN rateLimitMap THEN rateLimitMap[ip].count ELSE 0

NextUpload ==
  \/ \E req \in AnyRequests :
       /\ nextId + Len(pending) <= MaxUploads
       /\ Len(pending) < MaxInFlight
       /\ WrongCodesSent(req.ip) < MaxWrongCodes
       /\ UploadRequest(req) /\ RoutesUnchanged
  \/ \E k \in 1 .. MaxInFlight : UploadResume(k) /\ RoutesUnchanged

SpecUpload == Listening /\ [][NextUpload]_vars

\* server.js:210: const validActions
ValidActions == {"come_closer", "birthday_cake", "spin"}

\* heroTurtle is null or the turtle generateHeroTurtle stored
HasHero == heroTurtle = Hero

\* server.js:215: turtles.some(t => t.id === id) || (heroTurtle && heroTurtle.id === id)
Exists(id) ==
  \/ \E k \in 1 .. Len(turtles) : turtles[k].id = id
  \/ HasHero /\ heroTurtle.id = id

\* server.js:219: commandQueue.set(id, { action, timestamp: Date.now() })
QueueSet(id, action) ==
  [i \in DOMAIN commandQueue \cup {id} |->
     IF i = id THEN [action |-> action, timestamp |-> now] ELSE commandQueue[i]]

\* server.js:205-221: POST /api/turtle/:id/command
CommandRequest(req) ==
  /\ variant = "routes"
  /\ IF CodeRejected(req.eventCode)
     THEN Respond(403, Null, req) /\ UNCHANGED commandQueue
     ELSE IF req.action \notin ValidActions
     THEN Respond(400, Null, req) /\ UNCHANGED commandQueue
     ELSE IF ~Exists(req.id)
     THEN Respond(404, Null, req) /\ UNCHANGED commandQueue
     ELSE /\ commandQueue' = QueueSet(req.id, req.action)
          /\ Respond(200, Null, req)
  /\ UNCHANGED <<heroTurtle, turtles, nextId, rateLimitMap, now, pending, served>>

\* server.js:298: heroTurtle ? [heroTurtle, ...turtles] : [...turtles]
AllTurtles == IF HasHero THEN <<heroTurtle>> \o turtles ELSE turtles

\* server.js:300-314: the entry of one turtle in the response; command is
\* Null where the entry has no command property
PollEntry(t) ==
  [id |-> t.id, name |-> t.name,
   command |-> IF t.id \in DOMAIN commandQueue
               THEN commandQueue[t.id].action ELSE Null]

\* server.js:311: commandQueue.delete(t.id) for every turtle listed
Delivered(ts) ==
  [i \in DOMAIN commandQueue \ {ts[k].id : k \in 1 .. Len(ts)} |->
     commandQueue[i]]

\* server.js:285-318: GET /api/turtles.  knownIds.split(',') of a knownIds
\* that is an array throws before anything is delivered, and the error
\* handler answers.  Which image data the response leaves out is not kept.
TurtlesRequest(req) ==
  /\ variant = "routes"
  /\ IF CodeRejected(req.eventCode)
     THEN /\ rateLimitMap' = Counted(req.ip)
          /\ Respond(IF WithinLimit(req.ip) THEN 403 ELSE 429, Null, req)
          /\ UNCHANGED commandQueue
     ELSE IF req.knownIds = AnArray
     THEN /\ Respond(ErrorStatus("TypeError"), Null, req)
          /\ UNCHANGED <<commandQueue, rateLimitMap>>
     ELSE /\ reply' = [status |-> 200, id |-> Null, req |-> req,
                       turtles |-> [k \in 1 .. Len(AllTurtles) |->
                                      PollEntry(AllTurtles[k])]]
          /\ commandQueue' = Delivered(AllTurtles)
          /\ UNCHANGED rateLimitMap
  /\ UNCHANGED <<heroTurtle, turtles, nextId, now, pending, served>>

\* The guests of the aquarium page: commands for the hero turtle, the first
\* uploaded turtle and a turtle that never exists, polls with either code.
MaxWrongPolls == 2        \* wrong event codes sent while commands are queued

GoodUpload == Upload("10.0.0.1", EVENT_CODE, GoodName, "png")

Commands ==
  {[id |-> i, action |-> a, eventCode |-> c] :
     i \in {"hero", "1", "0"}, a \in {"spin", "come_closer", "dance"},
     c \in EventCodes}

AnyCommands ==
  {r \in Commands :
     /\ r.eventCode # EVENT_CODE => (r.id = "hero" /\ r.action = "spin")
     /\ r.action = "dance" => r.id = "hero"
     /\ r.id = "0" => r.action = "spin"}

\* knownIds left out, "1,2", or sent twice
Polls ==
  {[ip |-> "10.0.0.1", eventCode |-> c, knownIds |-> k] :
     c \in EventCodes, k \in {Undefined}}
    \cup {[ip |-> "10.0.0.1", eventCode |-> EVENT_CODE, knownIds |-> k] :
            k \in {<<49, 44, 50>>, AnArray}}

NextCommands ==
  \/ /\ nextId + Len(pending) <= MaxUploads
     /\ Len(pending) < MaxInFlight
     /\ UploadRequest(GoodUpload) /\ RoutesUnchanged
  \/ \E k \in 1 .. MaxInFlight : UploadResume(k) /\ RoutesUnchanged
  \/ \E req \in AnyCommands : CommandRequest(req) /\ RoutesUnchanged
  \/ \E req \in Polls :
       /\ CodeRejected(req.eventCode) => WrongCodesSent(req.ip) < MaxWrongPolls
       /\ TurtlesRequest(req) /\ RoutesUnchanged

SpecCommands == Listening /\ [][NextCommands]_vars

\* The instants at which the clock of the model is read (Date.now(), ms since
\* the server started): the ends of the rate windows opened at 0 and at
\* 60001, the millisecond after each, and the first run of the clean-up timer.
Instants == {0, RateWindow, RateWindow + 1, 2 * RateWindow + 1,
             2 * RateWindow + 2, CleanupInterval}

\* Time passes between two requests.
Tick ==
  /\ variant = "routes"
  /\ \E t \in Instants : t > now /\ now' = t
  /\ UNCHANGED <<heroTurtle, turtles, nextId, commandQueue, rateLimitMap,
                 pending, reply, served>>

\* server.js:105-112: the setInterval callback deletes the expired entries
CleanRateLimits ==
  /\ variant = "routes"
  /\ now >= CleanupInterval
  /\ rateLimitMap' = [i \in {j \in DOMAIN rateLimitMap :
                                ~(now > rateLimitMap[j].resetTime)} |->
                        rateLimitMap[i]]
  /\ UNCHANGED <<heroTurtle, turtles, nextId, commandQueue, now, pending,
                 reply, served>>

\* The clients of the rate limiter: two addresses, each sending wrong and
\* right event codes to both limited routes, the first past the limit, the
\* second a few times; commands that queue nothing.
RateIps == {"10.0.0.1", "10.0.0.2"}

WrongCap(ip) == IF ip = "10.0.0.1" THEN MaxWrongCodes ELSE MaxWrongPolls

\* Uploads without a name and a file, and ones with a file typed "text/plain"
RateUploads ==
  {Upload(i, c, Undefined, "none") : i \in RateIps, c \in EventCodes}
    \cup {[Upload(i, c, Undefined, "png") EXCEPT
             !.mimetype = <<116, 101, 120, 116, 47, 112, 108, 97, 105, 110>>] :
            i \in RateIps, c \in EventCodes}

RatePolls ==
  {[ip |-> i, eventCode |-> c, knownIds |-> Undefined] :
     i \in RateIps, c \in EventCodes}

NextRate ==
  \/ \E req \in RateUploads :
       /\ CodeRejected(req.eventCode) => WrongCodesSent(req.ip) < WrongCap(req.ip)
       /\ UploadRequest(req) /\ RoutesUnchanged
  \/ \E req \in RatePolls :
       /\ CodeRejected(req.eventCode) => WrongCodesSent(req.ip) < WrongCap(req.ip)
       /\ TurtlesRequest(req) /\ RoutesUnchanged
  \/ \E req \in {r \in AnyCommands : r.eventCode # EVENT_CODE} :
       CommandRequest(req) /\ RoutesUnchanged
  \/ Tick /\ RoutesUnchanged
  \/ CleanRateLimits /\ RoutesUnchanged

SpecRate == Listening /\ [][NextRate]_vars


-----------------------------------------------------------------------------
(* Properties *)

\* The result of a processImage call that resolved.
Returned == pc = "done"
shellDetected == useShellMask

\* darkPixelCount / totalPixels > 0.05, dark = R, G, B each below 60
InkRatioHigh == 20 * Cardinality({i \in Pixels(width, height) :
                  input[i][1] < 60 /\ input[i][2] < 60 /\ input[i][3] < 60})
                > width * height

\* C1: in the flood-fill variant shellDetected is true exactly when a start
\* pixel was found and the fill has 0.03 < fillCount/totalPixels < 0.7 and
\* edgeTouchPixels < 0.53 * sqrt(fillCount); otherwise it is false.
C1_DetectedIffFillAccepted ==
  (Returned /\ variant = "flood") =>
    (shellDetected <=>
       /\ startIdx # -1
       /\ 100 * fillCount > 3 * Total
       /\ 10 * fillCount < 7 * Total
       /\ 10000 * edgeTouchPixels * edgeTouchPixels < 2809 * fillCount)

\* A shell accepted although the fill touched the image edge.
C1_Witness ==
  Returned /\ variant = "flood" /\ shellDetected /\ edgeTouchPixels > 0

\* C2: in every variant a result with shellDetected = true has hint = null.
C2_DetectedHasNoHint == (Returned /\ shellDetected) => hint = Null

\* A detected shell in an image that meets the hint's own conditions: the
\* fill touched the edge and more than 5% of the pixels are ink.
C2_Witness ==
  Returned /\ shellDetected /\ touchesEdge /\ InkRatioHigh /\ hint = Null

\* C3 as stated: in the flood-fill variant, when no shell is accepted, hint
\* is the fixed string if the fill touched the image edge and more than 5% of
\* the pixels are dark, and null in every other not-detected case.
C3_HintIffTouchedEdgeAndInk ==
  (Returned /\ variant = "flood" /\ ~shellDetected) =>
    hint = (IF edgeTouchPixels > 0 /\ InkRatioHigh THEN HintText ELSE Null)

\* C3 amended: when no shell is accepted, hint is the fixed string if the
\* touches-edge flag is set, that is the fill reached a pixel on the image
\* edge or was aborted because fillCount exceeded the double totalPixels * 0.7
\* (above 70% of the image, and for some sizes at exactly 70%), and more than
\* 5% of the pixels are dark; it is null in every other not-detected case.
C3_HintIffEdgeFlagAndInk ==
  (Returned /\ variant = "flood" /\ ~shellDetected) =>
    /\ touchesEdge <=> (edgeTouchPixels > 0 \/ FillTooLarge(fillCount, Total))
    /\ hint = (IF (edgeTouchPixels > 0 \/ FillTooLarge(fillCount, Total))
                    /\ InkRatioHigh
               THEN HintText ELSE Null)

\* A fill aborted above 70% inside a frame drawn on the image edge: it never
\* reached an edge pixel, and the hint is returned.
C3_Witness ==
  /\ Returned /\ variant = "flood" /\ ~shellDetected
  /\ edgeTouchPixels = 0 /\ 10 * fillCount > 7 * Total
  /\ hint = HintText

\* Every circle HoughCircles returned was rejected because less than 75% of
\* its border samples fall inside the frame, on a page with more than 5% ink.
ClippedCircleRejected ==
  /\ Returned /\ variant \in {"geo1", "geo2"}
  /\ Len(counts) > 0
  /\ \A k \in 1 .. Len(counts) : 4 * counts[k][2] < 3 * Samples
  /\ InkRatioHigh

\* C4: in the geometric variants a circle substantially clipped by the frame
\* (no candidate accepted) in an image whose dark-pixel ratio exceeds 0.05
\* gives shellDetected = false and a non-null hint.
C4_ClippedCircleGetsHint ==
  ClippedCircleRejected => (~shellDetected /\ hint # Null)

\* C5: when no shell is detected, the flood-fill variant, the first geometric
\* variant and the server's processImage return the whole frame with alpha 0
\* exactly at the pixels whose R, G and B each exceed 230; every other pixel
\* keeps its alpha (and its colour).
C5_FallbackRemovesOnlyWhite ==
  (Returned /\ ~shellDetected /\ variant \in {"flood", "geo1", "server"}) =>
    /\ outWidth = width /\ outHeight = height
    /\ DOMAIN outData = Pixels(width, height)
    /\ \A i \in Pixels(width, height) :
         IF input[i][1] > 230 /\ input[i][2] > 230 /\ input[i][3] > 230
         THEN outData[i] = <<input[i][1], input[i][2], input[i][3], 0>>
         ELSE outData[i] = input[i]

\* The server's processImage returned a frame in which an opaque white pixel
\* became transparent and a half-transparent coloured pixel kept alpha 128.
C5_Witness ==
  /\ Returned /\ variant = "server"
  /\ \E i, j \in Pixels(width, height) :
       /\ input[i] = White /\ outData[i][4] = 0
       /\ input[j] = Tint /\ outData[j][4] = 128

\* C6: in the second geometric variant, when no circle is accepted, the
\* buffer is returned with no pixel modified and with the full frame size.
C6_Geo2FallbackUntouched ==
  (Returned /\ ~shellDetected /\ variant = "geo2") =>
    outData = input /\ outWidth = width /\ outHeight = height

\* A geo2 result without a shell whose white background is still opaque,
\* although circles were proposed (and rejected).
C6_Witness ==
  /\ Returned /\ ~shellDetected /\ variant = "geo2" /\ Len(candidates) > 0
  /\ \E i \in Pixels(width, height) : input[i] = White /\ outData[i] = White

\* The crop rectangle <<minX, minY, maxX, maxY>> and the interior shape of a
\* detected shell: the eroded fill, or the inset circle.
ShellBox ==
  IF variant = "flood" THEN MaskBox(mask, width, height)
  ELSE CircleBox(width, height, circle, InsetR(variant, circle[3]))

InInterior(i) ==
  IF variant = "geo2"
  THEN InCircle(i, width, circle, InsetR(variant, circle[3]))
  ELSE i \in mask

\* Index in the frame of output pixel j.
SourceIndex(j) ==
  (ShellBox[2] + (j \div outWidth)) * width + ShellBox[1] + (j % outWidth)

\* C7: when a shell is detected, every output pixel that is not in the
\* interior mask has alpha 0, also inside the crop rectangle.
C7_OutsideInteriorTransparent ==
  (Returned /\ shellDetected) =>
    \A j \in DOMAIN outData :
      ~InInterior(SourceIndex(j)) => outData[j][4] = 0

\* A geo2 crop holding an opaque input pixel outside the inset circle.
C7_Witness ==
  /\ Returned /\ shellDetected /\ variant = "geo2"
  /\ \E j \in DOMAIN outData :
       /\ ~InInterior(SourceIndex(j))
       /\ input[SourceIndex(j)][4] = 255
       /\ outData[j][4] = 0

\* A dark colour that is not ink: a channel below 60 and a channel >= 60.
MixedDark(p) ==
  /\ \E c \in 1 .. 3 : p[c] < 60
  /\ \E c \in 1 .. 3 : p[c] >= 60

\* C8: inside a detected shell the masker never makes transparent an
\* interior-mask pixel whose colour has a channel below 60 and a channel of
\* at least 60, under the paper-like and the not-paper-like rule alike.
C8_DarkColourSurvivesMask ==
  (pc \in {"boost", "crop", "encode", "done", "failed"} /\ shellDetected
     /\ variant \in {"flood", "geo1"}) =>
    \A i \in mask : MixedDark(input[i]) => data[i][4] = input[i][4]

\* Dark blue (#1a1a80) inside the mask of a shell whose paper is paper-like.
C8_Witness ==
  /\ Returned /\ shellDetected /\ hasPaperColor
  /\ \E i \in mask : input[i] = DarkBlue /\ data[i][4] = 255

\* C9: whenever shellDetected is true the output is strictly narrower and
\* strictly lower than the normalized frame.  (No accepted shape spans the
\* full frame, so the claim's proviso is never needed.)
C9_CropStrictlySmaller ==
  (Returned /\ shellDetected) => (outWidth < width /\ outHeight < height)

\* A detected shell cropped to a non-empty rectangle smaller than the frame.
C9_Witness ==
  /\ Returned /\ shellDetected /\ variant = "flood"
  /\ outWidth >= 1 /\ outHeight >= 1
  /\ Cardinality(DOMAIN outData) = outWidth * outHeight
  /\ outWidth < width /\ outHeight < height

\* C10: the engine is initialized at most once; every caller of initCV holds
\* the one promise, and every caller that resumed received the same handle.
C10_EngineLoadedOnce ==
  /\ cvLoads <= 1
  /\ Len(cvResolved) = cvLoads
  /\ \A k \in DOMAIN callerPc :
       callerPc[k] # "idle" => callerCv[k][1] = cvPromise
  /\ \A j, k \in DOMAIN callerPc :
       (callerPc[j] = "running" /\ callerPc[k] = "running")
         => callerCv[j][2] = callerCv[k][2]

\* Two callers suspended on the one promise before the engine resolved it.
C10_Witness ==
  /\ cvLoads = 1 /\ cvResolved = <<Null>>
  /\ Cardinality({k \in DOMAIN callerPc : callerPc[k] = "awaiting"}) >= 2

\* Every in-bounds pixel of the square rings 0 .. floor(0.15 * min(width,
\* height)) around the image centre is dark.
SearchAreaDark ==
  \A i \in Pixels(width, height) :
    (/\ 100 * Abs(PixelX(i, width) - (width \div 2)) <= 15 * Min2(width, height)
     /\ 100 * Abs(PixelY(i, width) - (height \div 2)) <= 15 * Min2(width, height))
      => (input[i][1] < 60 /\ input[i][2] < 60 /\ input[i][3] < 60)

\* C11: in the flood-fill variant, when every pixel of the search rings is
\* dark, processImage does not fail, runs no flood fill, and returns
\* shellDetected = false, hint = null and the full frame after white removal.
C11_NoStartPixelFallsBack ==
  (variant = "flood" /\ SearchAreaDark) =>
    /\ pc # "failed"
    /\ pc # "fill" /\ fillCount = 0 /\ visited = {} /\ mask = {}
    /\ Returned =>
         /\ startIdx = -1 /\ ~shellDetected /\ hint = Null
         /\ outWidth = width /\ outHeight = height
         /\ \A i \in Pixels(width, height) :
              outData[i] =
                IF input[i][1] > 230 /\ input[i][2] > 230 /\ input[i][3] > 230
                THEN <<input[i][1], input[i][2], input[i][3], 0>>
                ELSE input[i]

\* A page whose centre is inked over the whole search area, returned with
\* its white background removed although more than 5% of it is ink.
C11_Witness ==
  /\ Returned /\ variant = "flood" /\ SearchAreaDark /\ InkRatioHigh
  /\ \E i \in Pixels(width, height) : input[i] = White /\ outData[i][4] = 0


\* What POST /api/upload must accept: the event code, a name of 1 to 30
\* characters after trimming, and a photo sharp can decode.
CodeRight(req) == req.eventCode = "1234"
NameUsable(req) ==
  /\ req.name \notin {Undefined, AnArray}
  /\ Len(Trim(req.name)) >= 1 /\ Len(Trim(req.name)) <= 30
Refused(req) == Refusal(req) # Null
Acceptable(req) ==
  ~Refused(req) /\ CodeRight(req) /\ NameUsable(req) /\ req.photo = "png"

\* C12: a rejected upload -- wrong event code (403 or 429), empty or over-long
\* trimmed name (400), missing photo (400), processImage failure (500), and
\* also a file the upload middleware refuses (400) or a name that is not a
\* string (500) -- adds no turtle and consumes no id: ids are consumed and
\* turtles appended only by requests answered 200, and a request is answered
\* 200 only when it is acceptable and its image was processed.
C12_RejectedUploadChangesNothing ==
  variant = "routes" =>
    /\ nextId = 1 + Len(served)
    /\ \A i \in 1 .. Len(turtles) : \E j \in 1 .. Len(served) : turtles[i] = served[j]
    /\ reply # <<>> =>
         /\ reply.status = 200 <=> Acceptable(reply.req)
         /\ (~Refused(reply.req) /\ ~CodeRight(reply.req))
              <=> reply.status \in {403, 429}
         /\ (\/ Refused(reply.req)
             \/ /\ CodeRight(reply.req) /\ reply.req.name # AnArray
                /\ (~NameUsable(reply.req) \/ reply.req.photo = "none"))
              <=> reply.status = 400
         /\ (/\ ~Refused(reply.req) /\ CodeRight(reply.req)
             /\ \/ reply.req.name = AnArray
                \/ NameUsable(reply.req) /\ reply.req.photo = "garbage")
              <=> reply.status = 500
         /\ reply.status = 200 =>
              /\ served # <<>>
              /\ reply.id = served[Len(served)].id
              /\ turtles[Len(turtles)] = served[Len(served)]
         /\ reply.status # 200 => reply.id = Null

C12_Witness ==
  /\ variant = "routes" /\ reply # <<>>
  /\ reply.status = 500 /\ nextId = 3 /\ Len(turtles) = 2 /\ pending # <<>>


\* C13: once an upload handler has finished the roster holds at most 30
\* turtles, and they are the most recent (up to 30) successfully uploaded
\* ones in completion order -- eviction drops the oldest first; the hero
\* turtle is kept outside the roster and is never evicted.
C13_RosterIsLatestThirty ==
  variant = "routes" =>
    /\ Len(turtles) <= 30
    /\ Len(turtles) = Min2(30, Len(served))
    /\ \A i \in 1 .. Len(turtles) :
         turtles[i] = served[Len(served) - Len(turtles) + i]
    /\ heroTurtle = Hero
    /\ \A i \in 1 .. Len(turtles) : turtles[i].id # heroTurtle.id

C13_Witness ==
  /\ variant = "routes"
  /\ Len(served) = 32 /\ Len(turtles) = 30
  /\ turtles[1].id = "3" /\ turtles[30].id = "32"


\* A pixel of the first or last row or column
Outermost(i) ==
  \/ i % width = 0 \/ i % width = width - 1
  \/ i \div width = 0 \/ i \div width = height - 1

\* The pixels left, right, above and below pixel i
Adjacent(i) ==
  {n \in {i - 1, i + 1} : n \div width = i \div width}
    \cup {n \in {i - width, i + width} : n >= 0 /\ n < width * height}

\* The non-dark pixels joined to the pixels of F by 4-connected paths of
\* non-dark pixels; with `barrier` the paths do not continue through a pixel
\* of the outermost rows and columns.
RECURSIVE Closure(_, _, _)
Closure(S, F, barrier) ==
  LET from == {i \in F : ~(barrier /\ Outermost(i))}
      next == UNION {Adjacent(i) : i \in from}
      new == {n \in next \ S :
                ~(input[n][1] < 60 /\ input[n][2] < 60 /\ input[n][3] < 60)}
  IN  IF new = {} THEN S ELSE Closure(S \cup new, new, barrier)

\* The 4-connected non-dark region of the start pixel
StartRegion == Closure({startIdx}, {startIdx}, FALSE)
\* The part of it a fill that stops at edge pixels can reach
FillReach == Closure({startIdx}, {startIdx}, TRUE)

\* The pixels the fill has popped and counted
Popped == mask \ SeqRange(stack)

FillEnded == variant = "flood" /\ startIdx >= 0 /\ pc \notin {"start", "fill"}

\* C14 as stated: whenever the 4-connected non-dark region of the start pixel
\* covers more than 70% of the image, the fill stopped early, the touches-edge
\* flag is set, the region is not accepted, and with darkRatio > 0.05 a hint
\* is returned.
C14_LargeRegionNeverAccepted ==
  (Returned /\ variant = "flood" /\ startIdx >= 0
     /\ 10 * Cardinality(StartRegion) > 7 * Total) =>
    /\ 10 * fillCount > 7 * Total
    /\ touchesEdge /\ ~shellDetected
    /\ InkRatioHigh => hint = HintText

\* C14: whenever the pixels the fill can reach -- it does not continue through
\* a pixel of the outermost rows and columns -- are more than 70% of the
\* image, fillCount comes to exceed the double totalPixels * 0.7 (it reaches
\* 70% of the pixels at least), the fill is aborted at the first pixel off the
\* image edge it pops after that (so it expands from at most floor(70%) + 1
\* pixels), the touches-edge flag is set and the region is not accepted; so a
\* gap through which the fill floods the background is not detected and, with
\* darkRatio > 0.05, a hint is returned.
C14_LargeFillNeverAccepted ==
  (FillEnded /\ 10 * Cardinality(FillReach) > 7 * Total) =>
    /\ FillTooLarge(fillCount, Total) /\ 10 * fillCount >= 7 * Total
    /\ Cardinality({i \in Popped : ~Outermost(i)}) <= (7 * Total) \div 10 + 1
    /\ touchesEdge
    /\ pc # "accept" => ~useShellMask
    /\ pc # "erode" /\ erodeStep = 0
    /\ Returned => (~shellDetected /\ (InkRatioHigh => hint = HintText))

C14_Witness ==
  /\ Returned /\ variant = "flood" /\ startIdx >= 0
  /\ 10 * Cardinality(FillReach) > 7 * Total
  /\ stack # <<>> /\ edgeTouchPixels > 0
  /\ InkRatioHigh /\ hint = HintText
  /\ \E i \in Pixels(width, height) :
       PixelX(i, width) = width - 1 /\ i \in mask



\* C15: a filled pixel of the outermost rows and columns is counted in
\* fillCount and in edgeTouchPixels, sets touchesEdge and does not expand;
\* hence every filled pixel is joined to the start pixel by a 4-connected
\* path of non-dark pixels whose intermediate pixels are off the image edge.
C15_EdgePixelsAreBarriers ==
  (variant = "flood" /\ startIdx >= 0 /\ pc # "start") =>
    /\ mask \subseteq FillReach
    /\ pc \in {"fill", "accept"} =>
         /\ fillCount = Cardinality(Popped)
         /\ edgeTouchPixels = Cardinality({i \in Popped : Outermost(i)})
         /\ (\E i \in Popped : Outermost(i)) => touchesEdge
    /\ (pc = "accept" /\ ~FillTooLarge(fillCount, Total)) => mask = FillReach

C15_Witness ==
  /\ variant = "flood" /\ pc = "accept" /\ stack = <<>>
  /\ edgeTouchPixels >= 2 /\ 10 * fillCount < 7 * Total
  /\ Cardinality(FillReach) < Cardinality(StartRegion)


MaskHasDarkPixel ==
  \E i \in mask : input[i][1] < 60 /\ input[i][2] < 60 /\ input[i][3] < 60

\* C16 as stated: in every variant that builds an interior mask, once a shell
\* is detected no pixel of the mask has R, G and B all below 60.
C16_MaskExcludesDark ==
  (variant \in {"flood", "geo1"} /\ useShellMask) => ~MaskHasDarkPixel

\* C16, flood-fill variant: no pixel of the fill mask is dark, during the fill
\* and after erosion.
C16_FloodMaskExcludesDark ==
  variant = "flood" => ~MaskHasDarkPixel

C16_Witness ==
  /\ Returned /\ variant = "flood" /\ shellDetected /\ mask # {}
  /\ \E i \in Pixels(width, height) \ mask :
       /\ input[i][1] < 60 /\ input[i][2] < 60 /\ input[i][3] < 60
       /\ \E n \in Adjacent(i) : n \in FillReach



\* The pixels of `fill` whose 4-connected neighbours up to distance k all lie
\* inside the image and in `fill`
ErodedBy(fill, k) ==
  {i \in fill :
     \A dx \in -k .. k, dy \in -k .. k :
       Abs(dx) + Abs(dy) <= k =>
         /\ (i % width) + dx \in 0 .. width - 1
         /\ (i \div width) + dy \in 0 .. height - 1
         /\ ((i \div width) + dy) * width + (i % width) + dx \in fill}

\* C17: on acceptance the mask is eroded in exactly 3 passes, each removing
\* the set pixels that have an unset 4-neighbour or lie on the image border:
\* after k passes the mask holds exactly the filled pixels whose neighbours up
\* to distance k were filled, so the final mask is a subset of the accepted
\* fill and has no pixel within 3 pixels of the image border; without
\* acceptance no pass runs.
C17_ErosionIsThreePasses ==
  (variant = "flood" /\ startIdx >= 0 /\ pc \notin {"start", "fill", "accept"}) =>
    /\ useShellMask =>
         /\ mask = ErodedBy(FillReach, erodeStep)
         /\ pc = "erode" <=> erodeStep < 3
         /\ erodeStep <= 3
         /\ mask \subseteq FillReach
         /\ erodeStep = 3 =>
              \A i \in mask : /\ i % width >= 3 /\ i % width <= width - 4
                              /\ i \div width >= 3 /\ i \div width <= height - 4
    /\ ~useShellMask => (erodeStep = 0 /\ pc # "erode")

C17_Witness ==
  /\ Returned /\ variant = "flood" /\ shellDetected /\ erodeStep = 3
  /\ Cardinality(mask) >= 2 /\ edgeTouchPixels > 0


\* The square ring around (floor(width/2), floor(height/2)) pixel i lies on
RingOf(i) ==
  Max2(Abs((i % width) - (width \div 2)), Abs((i \div width) - (height \div 2)))

\* The non-dark pixels on the rings 0 .. floor(0.15 * min(width, height))
NearCentre ==
  {i \in Pixels(width, height) :
     /\ 100 * RingOf(i) <= 15 * Min2(width, height)
     /\ ~(input[i][1] < 60 /\ input[i][2] < 60 /\ input[i][3] < 60)}

\* C18: the start pixel is an in-bounds non-dark pixel on the smallest ring
\* r <= floor(0.15 * min(width, height)) around the centre that contains one,
\* and there is a start pixel whenever such a ring exists, dark centre or not.
C18_StartOnSmallestRing ==
  (variant = "flood" /\ pc # "start") =>
    IF NearCentre = {} THEN startIdx = -1
    ELSE /\ startIdx \in NearCentre
         /\ \A j \in NearCentre : RingOf(startIdx) <= RingOf(j)

C18_Witness ==
  /\ Returned /\ variant = "flood" /\ shellDetected
  /\ input[(height \div 2) * width + (width \div 2)] = Black
  /\ RingOf(startIdx) = 2
  /\ \E j \in NearCentre : j # startIdx /\ RingOf(j) = 2


\* The values of channel c over the pixels of S, sorted ascending: the
\* smallest value as often as it occurs, then the values of the other pixels
RECURSIVE SortedValues(_, _)
SortedValues(S, c) ==
  IF S = {} THEN <<>>
  ELSE LET v == CHOOSE a \in {input[i][c] : i \in S} :
                  \A b \in {input[i][c] : i \in S} : a <= b
           same == {i \in S : input[i][c] = v}
       IN  [k \in 1 .. Cardinality(same) |-> v] \o SortedValues(S \ same, c)

\* Element floor(n/2), counted from 0, of the sorted values of channel c
MedianOf(S, c) == SortedValues(S, c)[Cardinality(S) \div 2 + 1]

Masked ==
  /\ variant \in {"flood", "geo1"} /\ useShellMask
  /\ pc \in {"boost", "crop", "encode", "done", "failed"}

\* C19: the paper colour is, channel by channel, the element at index
\* floor(n/2) of the ascending-sorted values of that channel over the n mask
\* pixels, and isPaperLike holds exactly when the mean of the three medians
\* is above 160 and their spread (max - min) is below 50.
C19_PaperIsChannelMedian ==
  (Masked /\ mask # {}) =>
    /\ paper = <<MedianOf(mask, 1), MedianOf(mask, 2), MedianOf(mask, 3)>>
    /\ hasPaperColor <=>
         /\ paper[1] + paper[2] + paper[3] > 3 * 160
         /\ \A a \in 1 .. 3, b \in 1 .. 3 : paper[a] - paper[b] < 50

C19_Witness ==
  /\ Masked /\ Cardinality(mask) >= 4 /\ hasPaperColor
  /\ \A i \in mask : <<input[i][1], input[i][2], input[i][3]>> # paper


\* dr*dr + dg*dg + db*db of input pixel i against the estimated paper colour
PaperDistSq(i) ==
  (input[i][1] - paper[1]) * (input[i][1] - paper[1])
    + (input[i][2] - paper[2]) * (input[i][2] - paper[2])
    + (input[i][3] - paper[3]) * (input[i][3] - paper[3])

\* C20: for a pixel inside the interior mask the masker sets alpha to 0
\* exactly when, with a paper-like estimate, the squared RGB distance to the
\* paper colour is below 484, or, with an estimate that is not paper-like,
\* R, G and B are each above 230; in every other case alpha is unchanged.
C20_MaskerInsideMask ==
  Masked =>
    \A i \in mask :
      data[i][4] =
        IF hasPaperColor
        THEN (IF PaperDistSq(i) < 484 THEN 0 ELSE input[i][4])
        ELSE (IF input[i][1] > 230 /\ input[i][2] > 230 /\ input[i][3] > 230
              THEN 0 ELSE input[i][4])

C20_Witness ==
  /\ Masked /\ hasPaperColor
  /\ \E i \in mask :
       /\ PaperDistSq(i) > 0 /\ PaperDistSq(i) < 484
       /\ ~(input[i][1] > 230 /\ input[i][2] > 230 /\ input[i][3] > 230)
       /\ input[i][4] = 255 /\ data[i][4] = 0


\* The alpha the masker leaves on pixel i of a detected shell
MaskedAlpha(i) ==
  IF i \notin mask THEN 0
  ELSE IF hasPaperColor
       THEN (IF PaperDistSq(i) < 484 THEN 0 ELSE input[i][4])
       ELSE (IF input[i][1] > 230 /\ input[i][2] > 230 /\ input[i][3] > 230
             THEN 0 ELSE input[i][4])

SameColour(p, q) == p[1] = q[1] /\ p[2] = q[2] /\ p[3] = q[3]

\* C21: the contrast enhancer runs only with a paper-like estimate; after it
\* every alpha is the one the masker left, every channel is in 0..255, and a
\* pixel outside the mask or transparent after masking, or any pixel when the
\* estimate is not paper-like, has the colour it was decoded with.
C21_BoostTouchesVisibleMaskColours ==
  /\ (UsesMasker(variant) /\ pc = "boost") => (useShellMask /\ hasPaperColor)
  /\ (Masked /\ pc # "boost") =>
       \A i \in Pixels(width, height) :
         /\ data[i][4] = MaskedAlpha(i)
         /\ \A c \in 1 .. 3 : data[i][c] \in 0 .. 255
         /\ (~hasPaperColor \/ i \notin mask \/ MaskedAlpha(i) = 0)
              => SameColour(data[i], input[i])

C21_Witness ==
  /\ Masked /\ pc = "crop" /\ hasPaperColor
  /\ \E i \in mask : data[i][4] > 0 /\ ~SameColour(data[i], input[i])
  /\ \E i \in mask : data[i][4] = 0 /\ SameColour(data[i], input[i])
  /\ \E i \in Pixels(width, height) \ mask : ~SameColour(input[i], paper)


LeastOf(S) == CHOOSE x \in S : \A z \in S : x <= z
GreatestOf(S) == CHOOSE x \in S : \A z \in S : x >= z

\* circleR - max(8, round(0.15 circleR)), resp. circleR - max(4, round(0.05 circleR))
Inset ==
  IF variant = "geo1"
  THEN circle[3] - Max2(8, (15 * circle[3] + 50) \div 100)
  ELSE circle[3] - Max2(4, (5 * circle[3] + 50) \div 100)

\* <<minX, minY, maxX, maxY>>: the tight bounding box of the interior mask
\* (flood fill), the inset circle's extent clamped to the frame (geometric)
ShellRect ==
  IF variant = "flood"
  THEN <<LeastOf({i % width : i \in mask}), LeastOf({i \div width : i \in mask}),
         GreatestOf({i % width : i \in mask}),
         GreatestOf({i \div width : i \in mask})>>
  ELSE <<Max2(0, circle[1] - Inset), Max2(0, circle[2] - Inset),
         Min2(width - 1, circle[1] + Inset), Min2(height - 1, circle[2] + Inset)>>

\* The frame pixel under output pixel (x, y)
FramePixel(x, y) == data[(ShellRect[2] + y) * width + ShellRect[1] + x]

OutsideInset(x, y) ==
  (ShellRect[1] + x - circle[1]) * (ShellRect[1] + x - circle[1])
    + (ShellRect[2] + y - circle[2]) * (ShellRect[2] + y - circle[2])
  > Inset * Inset

ImageVariant == variant \in {"flood", "geo1", "geo2"}

\* C22 as stated: with a shell detected the output is the sub-rectangle
\* [minX..maxX] x [minY..maxY] of the processed frame, output pixel (x, y)
\* equal to frame pixel (minX + x, minY + y); without one the output has the
\* full width and height.
C22_OutputIsFrameRectangle ==
  (Returned /\ ImageVariant) =>
    IF shellDetected
    THEN /\ outWidth = ShellRect[3] - ShellRect[1] + 1
         /\ outHeight = ShellRect[4] - ShellRect[2] + 1
         /\ \A x \in 0 .. outWidth - 1, y \in 0 .. outHeight - 1 :
              outData[y * outWidth + x] = FramePixel(x, y)
    ELSE outWidth = width /\ outHeight = height

\* C22: as above, except that the second geometric variant, which has no
\* masker, makes the output pixels outside the inset circle transparent.
C22_OutputIsShellRectangle ==
  (Returned /\ ImageVariant) =>
    IF shellDetected
    THEN /\ outWidth = ShellRect[3] - ShellRect[1] + 1
         /\ outHeight = ShellRect[4] - ShellRect[2] + 1
         /\ DOMAIN outData = 0 .. outWidth * outHeight - 1
         /\ \A x \in 0 .. outWidth - 1, y \in 0 .. outHeight - 1 :
              outData[y * outWidth + x] =
                IF variant = "geo2" /\ OutsideInset(x, y)
                THEN <<FramePixel(x, y)[1], FramePixel(x, y)[2],
                       FramePixel(x, y)[3], 0>>
                ELSE FramePixel(x, y)
    ELSE outWidth = width /\ outHeight = height /\ outData = data

C22_Witness ==
  /\ Returned /\ variant = "geo2" /\ shellDetected
  /\ ShellRect[1] > 0 /\ ShellRect[4] < height - 1
  /\ \E x \in 0 .. outWidth - 1, y \in 0 .. outHeight - 1 :
       OutsideInset(x, y) /\ FramePixel(x, y)[4] = 255
  /\ \E x \in 0 .. outWidth - 1, y \in 0 .. outHeight - 1 :
       ~OutsideInset(x, y) /\ outData[y * outWidth + x][4] = 255


\* The candidate scored k-th passes both tests of the claim: at least 75% of
\* the 72 angles have an in-bounds sample, and the dark hits are at least
\* 0.3 (first variant) or 0.5 (second variant) of the valid angles.
Passes(k) ==
  /\ 100 * counts[k][2] >= 75 * 72
  /\ IF variant = "geo1" THEN 10 * counts[k][1] >= 3 * counts[k][2]
                         ELSE 10 * counts[k][1] >= 5 * counts[k][2]

\* darkHitRatio of candidate k against candidate j, cross-multiplied
RatioAtLeast(k, j) == counts[k][1] * counts[j][2] >= counts[j][1] * counts[k][2]

\* (darkHitRatio x radius) of candidate k against candidate j
WeightedAtLeast(k, j) ==
  counts[k][1] * candidates[k][3] * counts[j][2]
    >= counts[j][1] * candidates[j][3] * counts[k][2]

Selected == variant \in {"geo1", "geo2"} /\ pc # "start"

\* C23: once the candidates are scored, a shell is detected exactly when some
\* candidate passes; the chosen circle is then a passing candidate which
\* maximises darkHitRatio x radius (first variant), or darkHitRatio with the
\* larger radius on equal ratios (second variant).
C23_BestPassingCandidateChosen ==
  Selected =>
    /\ useShellMask <=> \E k \in 1 .. Len(candidates) : Passes(k)
    /\ useShellMask =>
         \E k \in 1 .. Len(candidates) :
           /\ circle = candidates[k] /\ Passes(k)
           /\ \A j \in 1 .. Len(candidates) :
                Passes(j) =>
                  IF variant = "geo1"
                  THEN WeightedAtLeast(k, j)
                  ELSE /\ RatioAtLeast(k, j)
                       /\ RatioAtLeast(j, k) => candidates[k][3] >= candidates[j][3]

C23_Witness ==
  /\ Selected /\ useShellMask /\ Len(candidates) = 2
  /\ Passes(1) /\ Passes(2) /\ circle = candidates[2]
  /\ candidates[1][3] # candidates[2][3]


\* C24 as stated: an accepted circle has 0.15 * min(width, height) <= r and
\* r <= 0.49 * min(width, height).
C24_RadiusWithinFractions ==
  (Selected /\ useShellMask) =>
    /\ 100 * circle[3] >= 15 * Min2(width, height)
    /\ 100 * circle[3] <= 49 * Min2(width, height)

\* C24: an accepted circle has floor(0.15 * min(width, height)) <= r and
\* r <= 0.49 * min(width, height): the lower limit handed to the circle
\* transform is rounded down.
C24_RadiusWithinFlooredFractions ==
  (Selected /\ useShellMask) =>
    /\ circle[3] >= (15 * Min2(width, height)) \div 100
    /\ 100 * circle[3] <= 49 * Min2(width, height)

C24_Witness ==
  /\ Selected /\ useShellMask
  /\ circle[3] = (15 * Min2(width, height)) \div 100
  /\ 100 * circle[3] < 15 * Min2(width, height)


\* C26: in every variant, whenever a shell is detected the crop rectangle has
\* width >= 1 and height >= 1, so the buffer allocation and the PNG encoding
\* never fail on it.
C26_CropRectangleNonEmpty ==
  (ImageVariant /\ shellDetected) =>
    /\ pc # "failed"
    /\ Returned => outWidth >= 1 /\ outHeight >= 1


NonDark == {i \in Pixels(width, height) : ~IsDark(input[i])}

Filling == variant = "flood" /\ pc \in {"fill", "accept"}

\* The bounds of C30.  No pixel is on the stack twice and
\* every stacked pixel is marked, so a pixel is pushed at most once; the stack
\* never holds more than totalPixels entries; the pops so far (fillCount) are
\* exactly the marked pixels no longer stacked, so pops plus stack length is
\* the number of marked pixels and the loop ends within totalPixels pops;
\* fillCount never exceeds the number of non-dark pixels.
C30_FloodFillBoundedWork ==
  variant = "flood" =>
    /\ Cardinality(SeqRange(stack)) = Len(stack)
    /\ SeqRange(stack) \subseteq visited
    /\ Len(stack) <= Total
    /\ fillCount <= Cardinality(NonDark) /\ fillCount <= Total
    /\ pc = "fill" => stack # <<>>
    /\ Filling =>
         /\ SeqRange(stack) \subseteq mask /\ mask \subseteq visited \cap NonDark
         /\ fillCount = Cardinality(Popped)
         /\ fillCount + Len(stack) = Cardinality(mask)

C30_Witness ==
  /\ variant = "flood" /\ pc = "fill" /\ fillCount >= 5 /\ Len(stack) >= 3
  /\ \E n \in SeqRange(Neighbours(stack[Len(stack)], width, height)) :
       n \in Popped
  /\ \E n \in visited : IsDark(input[n])


\* The while loop of the fill runs to completion once entered: weak fairness
\* of its iteration.
SpecFloodFair == SpecFlood /\ WF_vars(FloodFillStep)

\* C30, with termination: the bounds above hold throughout, and a fill that
\* has started ends.
C30_FloodFillTerminates ==
  /\ []C30_FloodFillBoundedWork
  /\ (variant = "flood" /\ pc = "fill") ~> (variant = "flood" /\ pc = "accept")


\* The ids of the turtles that exist: the roster and the hero turtle.
LiveIds == {turtles[k].id : k \in 1 .. Len(turtles)} \cup {"hero"}

\* C27: every key of the command queue is the id of a turtle that exists, in
\* the roster or the hero, also after an upload has evicted the oldest turtle
\* while a command for it was queued.
C27_QueuedCommandsHaveTurtles ==
  variant = "routes" => DOMAIN commandQueue \subseteq LiveIds


\* An authorised GET /api/turtles step that is answered (200; one whose
\* knownIds is not a string fails with 500), and an accepted command step.
AuthorisedPoll(req) ==
  TurtlesRequest(req) /\ ~CodeRejected(req.eventCode) /\ reply'.status = 200
AcceptedCommand(req) == CommandRequest(req) /\ reply'.status = 200

\* The poll response attaches the queued command of turtle id.
Attached(id) ==
  \E k \in 1 .. Len(reply'.turtles) :
    /\ reply'.turtles[k].id = id
    /\ reply'.turtles[k].command = commandQueue[id].action

\* An accepted command replaces whatever was queued for its turtle; nothing
\* but an accepted command and an authorised poll answered 200 changes the
\* queue; a poll response carries no command that was not queued.
QueueDiscipline ==
  /\ \A req \in AnyCommands :
       AcceptedCommand(req) =>
         /\ DOMAIN commandQueue' = DOMAIN commandQueue \cup {req.id}
         /\ commandQueue'[req.id].action = req.action
         /\ \A i \in DOMAIN commandQueue \ {req.id} :
              commandQueue'[i] = commandQueue[i]
  /\ \A req \in Polls :
       AuthorisedPoll(req) =>
         \A k \in 1 .. Len(reply'.turtles) :
           reply'.turtles[k].command # Null =>
             reply'.turtles[k].id \in DOMAIN commandQueue
  /\ ((\A req \in AnyCommands : ~AcceptedCommand(req))
        /\ (\A req \in Polls : ~AuthorisedPoll(req)))
       => commandQueue' = commandQueue

\* C25: every queued command is attached to its turtle in the next
\* authorised poll response (status 200) and leaves the queue in that step;
\* a newer command for the same turtle replaces the older one.
C25_CommandsAreOneShot ==
  [][/\ QueueDiscipline
     /\ \A req \in Polls :
          AuthorisedPoll(req) =>
            \A id \in DOMAIN commandQueue :
              Attached(id) /\ id \notin DOMAIN commandQueue']_vars

\* The number an id was made from.
IdNumber(id) == CHOOSE n \in 1 .. MaxUploads + MaxInFlight : ToString(n) = id

\* C29: whatever the order in which suspended uploads resume, the ids in the
\* roster are distinct and strictly increasing in roster order (and below
\* the counter).
C29_RosterIdsIncrease ==
  variant = "routes" =>
    /\ \A i, j \in 1 .. Len(turtles) :
         i < j => turtles[i].id # turtles[j].id
    /\ \A i \in 1 .. Len(turtles) - 1 :
         IdNumber(turtles[i].id) < IdNumber(turtles[i + 1].id)
    /\ turtles # <<>> => IdNumber(turtles[Len(turtles)].id) < nextId

C29_Witness ==
  /\ variant = "routes" /\ Len(turtles) >= 2
  /\ Len(pending) >= 2 /\ pending[1].name # pending[2].name
  /\ reply # <<>> /\ reply.status = 200 /\ reply.req.name = pending[2].name


\* The client's current window is still open: it has an entry and the clock
\* has not passed the entry's reset time.
InWindow(ip) == ip \in DOMAIN rateLimitMap /\ now <= rateLimitMap[ip].resetTime

\* The rank of the client's next wrong-code request in its window.
Rank(ip) == IF InWindow(ip) THEN rateLimitMap[ip].count + 1 ELSE 1

\* A step in which the client sends a wrong event code to a limited route.
WrongCodeStep(ip) ==
  \/ \E req \in RateUploads :
       req.ip = ip /\ req.eventCode # EVENT_CODE /\ UploadRequest(req)
  \/ \E req \in RatePolls :
       req.ip = ip /\ req.eventCode # EVENT_CODE /\ TurtlesRequest(req)

\* A step in which some client sends the right event code.
RightCodeStep ==
  \/ \E req \in RateUploads : req.eventCode = EVENT_CODE /\ UploadRequest(req)
  \/ \E req \in RatePolls : req.eventCode = EVENT_CODE /\ TurtlesRequest(req)

\* A step in which the client sends a wrong event code and the route's
\* handler runs: the upload middleware has not refused the file.
HandledWrongCodeStep(ip) ==
  \/ \E req \in RateUploads :
       /\ req.ip = ip /\ req.eventCode # EVENT_CODE /\ ~Refused(req)
       /\ UploadRequest(req)
  \/ \E req \in RatePolls :
       req.ip = ip /\ req.eventCode # EVENT_CODE /\ TurtlesRequest(req)

\* A step in which the upload middleware refuses the file of a request.
RefusedStep == \E req \in RateUploads : Refused(req) /\ UploadRequest(req)

\* C28: per client, a wrong-code request that reaches the handler of
\* /api/upload or /api/turtles is answered 403 if it is among the first 20 of
\* its 60-second window and 429 otherwise; a window opens with the first such
\* request and a new one once now > resetTime; no other step changes the
\* count of an open window; a right-code request is not counted and never
\* answered 429; an upload whose file the middleware refuses is answered 400
\* and not counted, whatever its event code.
C28_HandledWrongCodesAreRateLimited ==
  [][/\ \A ip \in RateIps :
          IF HandledWrongCodeStep(ip)
          THEN /\ reply'.status = IF Rank(ip) <= 20 THEN 403 ELSE 429
               /\ rateLimitMap'[ip].count = Rank(ip)
               /\ rateLimitMap'[ip].resetTime =
                    IF InWindow(ip) THEN rateLimitMap[ip].resetTime
                    ELSE now + 60000
          ELSE InWindow(ip) =>
                 /\ ip \in DOMAIN rateLimitMap'
                 /\ rateLimitMap'[ip] = rateLimitMap[ip]
     /\ RightCodeStep => rateLimitMap' = rateLimitMap /\ reply'.status # 429
     /\ RefusedStep => rateLimitMap' = rateLimitMap /\ reply'.status = 400]_vars

\* C28 as stated: every wrong-code request to /api/upload or /api/turtles is
\* answered 403 if it is among the first 20 of its 60-second window and 429
\* otherwise, and counted; a right-code request is not counted and never
\* answered 429.
C28_WrongCodesAreRateLimited ==
  [][/\ \A ip \in RateIps :
          IF WrongCodeStep(ip)
          THEN /\ reply'.status = IF Rank(ip) <= 20 THEN 403 ELSE 429
               /\ rateLimitMap'[ip].count = Rank(ip)
               /\ rateLimitMap'[ip].resetTime =
                    IF InWindow(ip) THEN rateLimitMap[ip].resetTime
                    ELSE now + 60000
          ELSE InWindow(ip) =>
                 /\ ip \in DOMAIN rateLimitMap'
                 /\ rateLimitMap'[ip] = rateLimitMap[ip]
     /\ RightCodeStep => rateLimitMap' = rateLimitMap /\ reply'.status # 429]_vars

C28_Witness ==
  /\ variant = "routes" /\ reply # <<>> /\ reply.status = 429
  /\ reply.req \in RateUploads /\ reply.req.ip = "10.0.0.1"
  /\ ~Refused(reply.req)
  /\ now = 2 * RateWindow + 1
  /\ rateLimitMap["10.0.0.1"] = [count |-> RateLimit + 1, resetTime |-> now]
  /\ "10.0.0.2" \in DOMAIN rateLimitMap

=============================================================================
